---- MODULE Spec2Model ----
(***************************************************************************)
(* Model of the MLOS shared channel (Mlos.Core/SharedChannel.{h,inl,cpp}), *)
(* its wake policy (SharedChannelPolicies.h, NamedEvent.Linux.cpp) and the *)
(* channel termination of MlosContext.cpp.                                 *)
(*                                                                         *)
(* Representation.  The buffer is kept as 32-bit words: every frame starts *)
(* at an offset that is a multiple of sizeof(int32_t) and every length the *)
(* code stores is a multiple of 4 (possibly with the low "incomplete" bit  *)
(* set).  Positions are uint32_t byte counters in the code; here they are  *)
(* kept divided by 4, modulo 2^30, which is the same arithmetic as bytes   *)
(* modulo 2^32 as long as every position is a multiple of 4.  A length    *)
(* that would take FreePosition off that alignment (a misaligned atomic    *)
(* access in the code) sets `fault` and the run ends there; ReadPosition   *)
(* never leaves it (invariant Aligned).  Frame lengths stay in bytes.      *)
(***************************************************************************)
EXTENDS Integers, Sequences, FiniteSets, TLC

\* ------------------------------------------------------------------ bounds
\* size argument handed to the ISharedChannel constructor
RequestedSize == 64
NumWriters == 2
NumReaders == 2
\* SendMessage calls started in one behaviour
MaxSends == 3
\* SendMessage calls in the specifications with two writers or two readers
PairSends == 2

\* ------------------------------------------------------- program constants
\* sizeof(FrameHeader): int32 Length, uint32 CodegenTypeIndex, uint64 CodegenTypeHash
FrameHeaderSize == 16
\* sizeof(int32_t) / sizeof(uint32_t)
WordSize == 4
\* width of the uint32_t position counters
PositionBits == 32

RECURSIVE most_significant_bit(_)
most_significant_bit(value) ==
    IF value \div 2 = 0 THEN 0 ELSE 1 + most_significant_bit(value \div 2)

\* ISharedChannel constructor: Size(1 << most_significant_bit(size)), Margin(Size - sizeof(FrameHeader))
Size == 2 ^ most_significant_bit(RequestedSize)
Margin == Size - FrameHeaderSize

\* number of words of the buffer and modulus of the word positions
NumWords == Size \div WordSize
PosMod == 2 ^ (PositionBits - 2)

Writers == 1 .. NumWriters
Readers == 1 .. NumReaders

\* align<sizeof(int32_t)>(size)
align(N, size) == ((size + N - 1) \div N) * N

\* --------------------------------------------------------- integer helpers
\* x & 1
LowBit(x) == x % 2
\* x & (~1)
ClearLowBit(x) == x - (x % 2)
\* x | 1
SetLowBit(x) == IF x % 2 = 0 THEN x + 1 ELSE x

\* a byte count as a number of words
InWords(bytes) == bytes \div WordSize

\* a byte count that takes a position off 4-byte alignment
Misaligned(bytes) == bytes % WordSize # 0
\* unsigned difference of two positions (uint32_t arithmetic, in words)
PosDiff(a, b) == (a - b) % PosMod
PosAdd(a, words) == (a + words) % PosMod
\* position % Size, as a word index
OffsetOf(position) == position % NumWords

\* ------------------------------------------------------------- messages
\* The dispatch table has DispatchEntryCount entries; entry 1 expects TypeHash.
DispatchEntryCount == 2
\* the two 32-bit halves of the 64-bit CodegenTypeHash of message type 1
TypeHash == <<4 * 250, 4 * 500>>
\* the hash the dispatch table expects for message type codegenTypeIndex
ExpectedTypeHash(codegenTypeIndex) ==
    <<TypeHash[1], TypeHash[2] + WordSize * (codegenTypeIndex - 1)>>
\* the table entry of the message type with a variable-length field
\* (StringViewElement); the other types have a fixed size
StringViewElementIndex == 2
\* sizeof(StringPtr) in the model's frames: a reference word and a length word
StringPtrSize == 2 * WordSize
\* payload word written by the serializer for message msgId
PayloadWord(msgId) == 4 * (100 + msgId)
\* What the sending process puts into a frame. "valid": a message of the
\* fixed-size type 1; "string": a StringViewElement; "index": a message type
\* the reader's table does not have; "hash": a type 1 whose layout hash differs
\* from the table entry; "data": a StringViewElement whose reference was
\* altered after serialization (DetectInvalidDataMessages adds 1 to it).
MessageKinds == {"valid", "string", "index", "hash", "data"}

VariableKinds == {"string", "data"}

FrameTypeIndex(kind) ==
    IF kind = "index" THEN DispatchEntryCount + 1
    ELSE IF kind \in VariableKinds THEN StringViewElementIndex
    ELSE 1

FrameTypeHash(kind) ==
    IF kind = "hash" THEN <<TypeHash[1] + WordSize, TypeHash[2]>>
    ELSE ExpectedTypeHash(FrameTypeIndex(kind))

\* ObjectSerialization::Serialize: payload word k of words. A StringViewElement
\* is the reference to its characters (their offset, sizeof(StringPtr)), their
\* length in bytes, and the characters.
SerializedWord(k, words, msgId, kind) ==
    IF kind \in VariableKinds /\ k = 1
    THEN StringPtrSize + (IF kind = "data" THEN 1 ELSE 0)
    ELSE IF kind \in VariableKinds /\ k = 2 THEN words * WordSize - StringPtrSize
    ELSE PayloadWord(msgId)

\* number of payload words of a message whose frame is frameLength bytes
PayloadWords(frameLength) == InWords(frameLength - FrameHeaderSize)

VARIABLES
    Sync,          \* ChannelSynchronization: the six atomics
    Buffer,        \* the ring buffer, as words
    semaphore,     \* count of the channel's NamedEvent (POSIX semaphore)
    policy,        \* "internal" (TestSharedChannel) or "interprocess"
    writer,        \* per writer thread: position in SendMessage and its locals
    reader,        \* per reader thread: position in ProcessMessages and its locals
    main,          \* the thread that owns the channel (InitializeChannel, Terminate*)
    fault,         \* a thread touched memory outside the buffer or misaligned
    sendCount,     \* history: SendMessage calls started
    reservations,  \* history: successful WritePosition CASes, in order
    claims,        \* history: successful ReadPosition CASes, in order
    dispatches,    \* history: handler invocations, in order
    crashed,       \* history: <<>>, or the channel as the crash left it
    memoryRegion,     \* shared config region: Allocator, Entries, Slots, Configs
    componentConfig,  \* the caller's ComponentConfig and its position in the call
    configHistory,    \* history: the shared configs created, in order
    otherConfig,      \* the ComponentConfig of a second calling thread, while it does not run
    sharedMemory,     \* the named shared memory objects of InterProcessMlosContext
    process,          \* per process: position in Create, the destructor, a call
    contextHistory,   \* history: opens, unlinks and registrations, in order
    fileSystem,       \* the watched file, the inotify instance, the agent's socket
    watcher,          \* the thread that waits for the file to be opened
    watchHistory      \* history: what the watcher and the other side did

vars == <<Sync, Buffer, semaphore, policy, writer, reader, main, fault,
          sendCount, reservations, claims, dispatches, crashed,
          memoryRegion, componentConfig, configHistory, otherConfig,
          sharedMemory, process, contextHistory,
          fileSystem, watcher, watchHistory>>

contextVars == <<sharedMemory, process, contextHistory>>

watchVars == <<fileSystem, watcher, watchHistory>>

platformVars == <<contextVars, watchVars>>

history == <<sendCount, reservations, claims, dispatches, crashed>>

\* ------------------------------------------------------------- initial state
\* ChannelSynchronization sync = {}; buffer zero-filled
InitSync ==
    [WritePosition |-> 0, ReadPosition |-> 0, FreePosition |-> 0,
     ActiveReaderCount |-> 0, ReaderInWaitingStateCount |-> 0,
     TerminateChannel |-> FALSE]

WriterIdle ==
    [pc |-> "idle", call |-> "send", kind |-> "valid",
     expectedFrameLength |-> 0, frameLength |-> 0,
     freePosition |-> 0, writePosition |-> 0, writeOffset |-> 0, msgId |-> 0,
     resIndex |-> 0,
     afFree |-> 0, afRead |-> 0, afLength |-> 0, afReturn |-> "acquire_load_free"]

ReaderIdle ==
    [pc |-> "idle", shouldWait |-> FALSE, readPosition |-> 0, frameLength |-> 0,
     readOffset |-> 0, codegenTypeIndex |-> 0, invalid |-> FALSE]

\* a reader at the top of the loop of a fresh WaitForFrame call
ReaderWaiting == [ReaderIdle EXCEPT !.pc = "wait_load_read"]

MainIdle ==
    [pc |-> "running", freePosition |-> 0, writePosition |-> 0,
     afFree |-> 0, afRead |-> 0, afLength |-> 0, afReturn |-> "init_load_positions"]

\* ================================================ SHARED CONFIG DICTIONARY ==
\* The dictionary of shared configs (SharedConfigDictionaryLookup.inl,
\* SharedConfigManager.inl) and its arena allocator (ArenaAllocator.cpp). One
\* process mutates it, one call at a time. Memory is kept per allocation: the
\* AllocationEntry at the allocation's offset and the shared config behind it.

\* MemoryHeader.MemoryRegionSize of the model's region, in bytes
MemoryRegionSize == 576
\* UIntArray.Count, the number of slots
ElementCount == 4
\* config keys and config types the callers use
NumKeys == 2
NumTypes == 2

\* sizeof(AllocationEntry): PrevEntryoffset, NextEntryOffset
AllocationEntrySize == 8
\* align<64>(size) of every allocation
AllocationAlignment == 64
\* align<256>(firstAllocationOffset)
FirstAllocationAlignment == 256
\* sizeof(SharedConfigHeader)
SharedConfigHeaderSize == 32
\* FNVHashFunction<uint32_t>::Prime() and OffsetBasis(), their low HashBits bits
\* (the hash is kept to HashBits bits so that the product stays a TLC integer)
HashBits == 16
FNVPrime == 403
FNVOffsetBasis == 40389

Keys == 1 .. NumKeys
Types == 1 .. NumTypes
ConfigValues == {1, 2}

\* offsets an allocation can start at, and offsets AllocateInMemoryRegion returns
EntryOffsets ==
    {o \in 0 .. 2 * MemoryRegionSize : o % AllocationAlignment = 0}

ConfigOffsets == {o + AllocationEntrySize : o \in EntryOffsets}

\* sizeof(T) of a config of the given type (fixed-size configs: a key, a value
\* and, for the larger types, further fields)
ConfigSize(type) == 2 * WordSize * type

\* sizeof(SharedConfigType) + ObjectSerialization::GetSerializedSize(config):
\* GetSerializedSize is sizeof(config) + GetVariableDataSize(config)
SharedConfigSize(type) == SharedConfigHeaderSize + ConfigSize(type) + ConfigSize(type)

\* sizeof(UIntArray) + sizeof(uint32_t) * elementCount
ConfigsArraySize == WordSize + WordSize * ElementCount

\* x ^ y on non-negative integers
RECURSIVE BitXor(_, _)
BitXor(x, y) ==
    IF x = 0 THEN y
    ELSE IF y = 0 THEN x
    ELSE ((x + y) % 2) + 2 * BitXor(x \div 2, y \div 2)

\* FNVHashFunction::CombineHashValue for one byte
CombineHashValue(hashValue, byte) ==
    (BitXor(byte, hashValue) * FNVPrime) % (2 ^ HashBits)

\* TypeMetadataInfo::GetKeyHashValue<FNVHash>: the hash of the key's bytes
GetKeyHashValue(key) ==
    CombineHashValue(CombineHashValue(FNVOffsetBasis, key % 256), key \div 256)

\* TLinearProbing::CalculateIndex (the caller's probingCount is incremented)
CalculateIndex(key, probingCount, elementCount) ==
    (GetKeyHashValue(key) + probingCount) % elementCount

\* InitializeArenaAllocator
InitializeArenaAllocator(memoryRegionSize, firstAllocationOffset) ==
    LET first == align(FirstAllocationAlignment, firstAllocationOffset) IN
    [FirstAllocationOffset |-> first,
     AllocationBlockSize |-> memoryRegionSize - first,
     FreeOffset |-> first,
     AllocationCount |-> 0,
     LastAllocatedOffset |-> 0]

\* Variant of the out-of-memory test that compares the rounded size and lets
\* an exact fit pass.
AllocationFailsRounded(allocator, size) ==
    allocator.FreeOffset + align(AllocationAlignment, size + AllocationEntrySize)
        > allocator.AllocationBlockSize + allocator.FirstAllocationOffset

\* AllocateInMemoryRegion: size += sizeof(AllocationEntry);
\* FreeOffset + size >= AllocationBlockSize + FirstAllocationOffset
AllocationFails(allocator, size) ==
    allocator.FreeOffset + size + AllocationEntrySize
        >= allocator.AllocationBlockSize + allocator.FirstAllocationOffset

\* Variant of AllocateInMemoryRegion that leaves the last entry's
\* NextEntryOffset alone.
AllocateWithoutNextLink(region, size) ==
    LET allocator == region.Allocator
        offset == allocator.FreeOffset
    IN  [region EXCEPT
            !.Allocator =
                [allocator EXCEPT
                    !.FreeOffset =
                        @ + align(AllocationAlignment, size + AllocationEntrySize),
                    !.AllocationCount = @ + 1,
                    !.LastAllocatedOffset = offset],
            !.Entries =
                [region.Entries EXCEPT ![offset].PrevEntryoffset =
                    allocator.LastAllocatedOffset]]

\* AllocateInMemoryRegion, S_OK: the region with the allocator advanced and
\* the new AllocationEntry linked behind the last one
AllocateInMemoryRegion(region, size) ==
    LET allocator == region.Allocator
        offset == allocator.FreeOffset
        linked == IF allocator.LastAllocatedOffset # 0
                  THEN [region.Entries EXCEPT
                           ![allocator.LastAllocatedOffset].NextEntryOffset = offset]
                  ELSE region.Entries
    IN  [region EXCEPT
            !.Allocator =
                [allocator EXCEPT
                    !.FreeOffset =
                        @ + align(AllocationAlignment, size + AllocationEntrySize),
                    !.AllocationCount = @ + 1,
                    !.LastAllocatedOffset = offset],
            !.Entries =
                [linked EXCEPT ![offset].PrevEntryoffset =
                    allocator.LastAllocatedOffset]]

\* shared memory is zero-filled when it is mapped
ZeroConfig ==
    [ConfigId |-> 0, CodegenTypeIndex |-> 0, Key |-> 0, Value |-> 0, Address |-> 0]

\* a region with an initialized allocator and nothing allocated; Owner is the
\* code that keeps shared configs in it: SharedConfigDictionaryLookup on a
\* SharedConfigDictionary ("dictionary") or SharedConfigManager on its
\* SharedConfigMemoryRegion ("manager")
EmptyRegion(memoryRegionSize, firstAllocationOffset) ==
    [Owner |-> "dictionary",
     Allocator |-> InitializeArenaAllocator(memoryRegionSize, firstAllocationOffset),
     Entries |-> [o \in EntryOffsets |-> [PrevEntryoffset |-> 0, NextEntryOffset |-> 0]],
     Slots |-> [i \in 0 .. ElementCount - 1 |-> 0],
     Configs |-> [o \in ConfigOffsets |-> ZeroConfig]]

\* InitializeSharedConfigDictionary: the allocator, then the array of slots
InitializeSharedConfigDictionary ==
    AllocateInMemoryRegion(EmptyRegion(MemoryRegionSize, FirstAllocationAlignment),
                           ConfigsArraySize)

ComponentIdle ==
    [pc |-> "idle", op |-> "none", api |-> "none", type |-> 0, key |-> 0,
     value |-> 0, size |-> 0, probingCount |-> 0, slotIndex |-> 0, allocatedOffset |-> 0,
     sharedConfig |-> 0, result |-> "none", existed |-> FALSE]

dictionary == <<memoryRegion, componentConfig, configHistory, otherConfig>>

InitDictionary ==
    /\ memoryRegion = InitializeSharedConfigDictionary
    /\ componentConfig = ComponentIdle
    /\ otherConfig = ComponentIdle
    /\ configHistory = <<>>

\* the slots that hold the config (type, key)
SlotsOf(region, type, key) ==
    {i \in DOMAIN region.Slots :
        /\ region.Slots[i] # 0
        /\ region.Configs[region.Slots[i]].CodegenTypeIndex = type
        /\ region.Configs[region.Slots[i]].Key = key}

channelVars ==
    <<Sync, Buffer, semaphore, policy, writer, reader, main, fault, history>>

Apis == {"dictionary", "manager"}

\* the statements of CreateOrUpdateFrom after the allocation, in program order:
\* SharedConfigDictionaryLookup (InitializeFromDefaultConfig, Bind, slot) and
\* SharedConfigManager (Initialize, Bind, Serialize, slot, Address)
DictionaryOrder ==
    <<"init_config_id", "init_type_index", "serialize_key", "serialize_value",
      "bind", "store_slot">>

ManagerOrder ==
    <<"init_config_id", "init_type_index", "bind", "serialize_key",
      "serialize_value", "store_slot", "store_address">>

\* Variant that stores the offset into the slot before the config is serialized.
SlotFirstOrder(api) ==
    <<"init_config_id", "init_type_index", "store_slot", "serialize_key",
      "serialize_value", "bind">>

CreateOrder(api) == IF api = "manager" THEN ManagerOrder ELSE DictionaryOrder

\* the statement after pc, "return" after the last one
NextPc(api, pc) ==
    LET order == CreateOrder(api)
        k == CHOOSE i \in DOMAIN order : order[i] = pc
    IN  IF k = Len(order) THEN "return" ELSE order[k + 1]

\* Variant of CompareKey that takes every config of the type for the key.
CompareAnyKey(key, sharedConfig) == TRUE

\* TypeMetadataInfo::CompareKey<T>(componentConfig, sharedConfig->m_config)
CompareKey(key, sharedConfig) == key = sharedConfig.Key

\* Variant of Update that keeps the caller's local value.
UpdateKeepsLocal(value, sharedConfig) == value

\* ComponentConfig::Update: *static_cast<T*>(this) = m_sharedConfig->m_config
Update(value, sharedConfig) == sharedConfig.Value

ComponentAt(label) == componentConfig.pc = label

\* the caller's ComponentConfig as a call begins: its key and default value
\* (existed: the dictionary held the key when the call began)
Called(op, api, type, key, value) ==
    [ComponentIdle EXCEPT !.pc = "probe", !.op = op, !.api = api,
                          !.type = type, !.key = key, !.value = value,
                          !.existed = SlotsOf(memoryRegion, type, key) # {}]

\* CreateOrUpdateFromInSharedConfigDictionary / SharedConfigManager::
\* CreateOrUpdateFrom is called: probingCount = 0
CreateOrUpdateFrom(api, type, key, value) ==
    /\ ComponentAt("idle")
    /\ api = memoryRegion.Owner
    /\ componentConfig' = Called("create", api, type, key, value)
    /\ UNCHANGED <<memoryRegion, configHistory, channelVars, platformVars, otherConfig>>

\* LookupInSharedConfigDictionary / SharedConfigManager::Lookup is called
Lookup(api, type, key, value) ==
    /\ ComponentAt("idle")
    /\ api = memoryRegion.Owner
    /\ componentConfig' = Called("lookup", api, type, key, value)
    /\ UNCHANGED <<memoryRegion, configHistory, channelVars, platformVars, otherConfig>>

\* iterations of the probing loop followed in one call
MaxProbes == 12

\* one iteration of while (true): CalculateIndex, load the slot, compare
ProbeSlot ==
    /\ ComponentAt("probe")
    /\ componentConfig.probingCount < MaxProbes
    /\ LET slotIndex == CalculateIndex(componentConfig.key,
                                       componentConfig.probingCount, ElementCount)
           offset == memoryRegion.Slots[slotIndex]
           probed == [componentConfig EXCEPT !.slotIndex = slotIndex,
                                             !.probingCount = @ + 1]
       IN  componentConfig' =
               IF offset = 0
               THEN IF componentConfig.op = "create"
                    THEN [probed EXCEPT !.pc = "allocate"]
                    ELSE [probed EXCEPT !.pc = "idle", !.result = "E_NOT_SET"]
               ELSE IF /\ memoryRegion.Configs[offset].CodegenTypeIndex
                              = componentConfig.type
                       /\ CompareKey(componentConfig.key, memoryRegion.Configs[offset])
                    THEN [probed EXCEPT
                              !.pc = "idle", !.result = "S_OK",
                              !.sharedConfig = offset,
                              !.value = Update(@, memoryRegion.Configs[offset])]
                    ELSE probed
    /\ UNCHANGED <<memoryRegion, configHistory, channelVars, platformVars, otherConfig>>

\* AllocateInMemoryRegion(allocator, sharedConfigSize, allocatedOffset)
AllocateSharedConfig ==
    /\ ComponentAt("allocate")
    /\ LET size == SharedConfigSize(componentConfig.type) IN
       IF AllocationFails(memoryRegion.Allocator, size)
       THEN /\ componentConfig' =
                   [componentConfig EXCEPT !.pc = "idle", !.size = size,
                                           !.result = "E_OUTOFMEMORY"]
            /\ UNCHANGED memoryRegion
       ELSE /\ memoryRegion' = AllocateInMemoryRegion(memoryRegion, size)
            /\ componentConfig' =
                   [componentConfig EXCEPT
                       !.pc = CreateOrder(componentConfig.api)[1],
                       !.size = size,
                       !.allocatedOffset =
                           memoryRegion.Allocator.FreeOffset + AllocationEntrySize]
    /\ UNCHANGED <<configHistory, channelVars, platformVars, otherConfig>>

\* the statement at `label` of the create path has run: the next statement, or
\* return S_OK
Advance(label) ==
    LET next == NextPc(componentConfig.api, label) IN
    IF next = "return"
    THEN /\ componentConfig' =
                [componentConfig EXCEPT !.pc = "idle", !.result = "S_OK"]
         /\ configHistory' =
                Append(configHistory,
                       [api |-> componentConfig.api, type |-> componentConfig.type,
                        key |-> componentConfig.key, value |-> componentConfig.value,
                        offset |-> componentConfig.allocatedOffset])
    ELSE /\ componentConfig' = [componentConfig EXCEPT !.pc = next]
         /\ UNCHANGED configHistory

\* a store to one field of the config being created
StoreField(label, stored) ==
    /\ ComponentAt(label)
    /\ memoryRegion' =
           [memoryRegion EXCEPT !.Configs[componentConfig.allocatedOffset] = stored]
    /\ Advance(label)
    /\ UNCHANGED <<channelVars, platformVars, otherConfig>>

CreatedConfig == memoryRegion.Configs[componentConfig.allocatedOffset]

\* m_header.ConfigId = 1
InitConfigId ==
    StoreField("init_config_id", [CreatedConfig EXCEPT !.ConfigId = 1])

\* m_header.CodegenTypeIndex = TypeMetadataInfo::CodegenTypeIndex<TProxy>()
InitTypeIndex ==
    StoreField("init_type_index",
               [CreatedConfig EXCEPT !.CodegenTypeIndex = componentConfig.type])

\* ObjectSerialization::Serialize(BytePtr(&m_config), config): the key field
SerializeKey ==
    StoreField("serialize_key", [CreatedConfig EXCEPT !.Key = componentConfig.key])

\* ObjectSerialization::Serialize, continued: the value field
SerializeValue ==
    StoreField("serialize_value",
               [CreatedConfig EXCEPT !.Value = componentConfig.value])

\* sharedConfig->m_header.Address.Offset = allocatedOffset (and MemoryRegionId)
StoreAddress ==
    StoreField("store_address",
               [CreatedConfig EXCEPT !.Address = componentConfig.allocatedOffset])

\* componentConfig.Bind(sharedConfig)
BindSharedConfig ==
    /\ ComponentAt("bind")
    /\ componentConfig' =
           [componentConfig EXCEPT
               !.sharedConfig = componentConfig.allocatedOffset,
               !.pc = NextPc(componentConfig.api, "bind")]
    /\ UNCHANGED <<memoryRegion, configHistory, channelVars, platformVars, otherConfig>>

\* configsArray.Elements()[slotIndex] = allocatedOffset
StoreSlot ==
    /\ ComponentAt("store_slot")
    /\ memoryRegion' =
           [memoryRegion EXCEPT
               !.Slots[componentConfig.slotIndex] = componentConfig.allocatedOffset]
    /\ Advance("store_slot")
    /\ UNCHANGED <<channelVars, platformVars, otherConfig>>

NextDictionary ==
    \/ \E api \in Apis, type \in Types, key \in Keys, value \in ConfigValues :
           \/ CreateOrUpdateFrom(api, type, key, value)
           \/ Lookup(api, type, key, value)
    \/ ProbeSlot
    \/ AllocateSharedConfig
    \/ InitConfigId
    \/ InitTypeIndex
    \/ SerializeKey
    \/ SerializeValue
    \/ BindSharedConfig
    \/ StoreSlot
    \/ StoreAddress


\* ============================================================ PLATFORM ==
\* The named shared memory of InterProcessMlosContext and the file watch of
\* FileWatchEvent / AnonymousMemoryMlosContext, as the Linux build has them.

NumProcesses == 2
MaxAttaches == 3
Processes == 1 .. NumProcesses

\* MemoryHeader.Signature = 0x67676767
RegionSignature == 1734829927

\* a shared memory object as shm_open(O_CREAT) and ftruncate leave it: zeros
ZeroGlobalMemoryRegion ==
    [Signature |-> 0, MemoryRegionSize |-> 0, TotalMemoryRegionCount |-> 0,
     RegisteredSettingsAssemblyCount |-> 0, AttachedProcessesCount |-> 0,
     Allocator |-> [FirstAllocationOffset |-> 0, AllocationBlockSize |-> 0,
                    FreeOffset |-> 0, AllocationCount |-> 0,
                    LastAllocatedOffset |-> 0]]

\* no object is linked under the context's names
InitSharedMemory == [Global |-> 0, SharedConfig |-> FALSE, Regions |-> <<>>]

\* a process that has no context; attaches counts its Create calls
ProcessIdle ==
    [pc |-> "none", view |-> 0, hr |-> "S_OK", usageCount |-> 0,
     cleanupOnClose |-> FALSE, assemblyIndex |-> 0, sends |-> 0,
     message |-> [msgId |-> 0, AssemblyIndex |-> 0]]

InitContext ==
    /\ sharedMemory = InitSharedMemory
    /\ process = [p \in Processes |-> ProcessIdle]
    /\ contextHistory = <<>>

\* no watch file, an inotify instance without watches, nobody listens on the
\* agent's socket
InitFileSystem ==
    [File |-> 0, Inodes |-> 0, Watch |-> 0, Queue |-> <<>>, Socket |-> FALSE]

\* the watcher before its thread function is entered
WatcherIdle ==
    [pc |-> "idle", call |-> "none", fdWatch |-> 0, waitForSocket |-> TRUE,
     hr |-> "S_OK", events |-> <<>>, deleted |-> FALSE, pendingOpen |-> FALSE]

InitWatch ==
    /\ fileSystem = InitFileSystem
    /\ watcher = WatcherIdle
    /\ watchHistory = <<>>

InitPlatform == InitContext /\ InitWatch

\* ============================================================ CHANNEL ==

\* the channel after the ISharedChannel constructor
InitChannelWith(channelPolicy) ==
    /\ Sync = InitSync
    /\ Buffer = [i \in 0 .. NumWords - 1 |-> 0]
    /\ semaphore = 0
    /\ policy = channelPolicy
    /\ writer = [w \in Writers |-> WriterIdle]
    /\ reader = [r \in Readers |-> ReaderIdle]
    /\ main = MainIdle
    /\ fault = FALSE
    /\ sendCount = 0
    /\ reservations = <<>>
    /\ claims = <<>>
    /\ dispatches = <<>>
    /\ crashed = <<>>

InitWith(channelPolicy) ==
    /\ InitChannelWith(channelPolicy)
    /\ InitDictionary
    /\ InitPlatform

\* a thread takes the step at `label`: nothing runs after a fault, and writers
\* and readers run only while no InitializeChannel is in progress
WriterAt(w, label) == ~ fault /\ main.pc = "running" /\ writer[w].pc = label
ReaderAt(r, label) == ~ fault /\ main.pc = "running" /\ reader[r].pc = label
MainAt(label) == ~ fault /\ main.pc = label

\* ------------------------------------------------------------ buffer access
\* buf with the words first .. last set to value (all inside the buffer)
StoreWords(buf, first, last, value) ==
    [i \in 0 .. NumWords - 1 |-> IF i >= first /\ i <= last THEN value ELSE buf[i]]

\* ============================================================== WRITER ====
\* Variant of the free-space test on positions widened before the subtraction:
\* the difference is no longer taken modulo 2^32.
HasFreeSpaceWidened(writePosition, freePosition, frameLength) ==
    writePosition - freePosition < InWords(Margin) - InWords(frameLength)

\* AcquireRegionForWrite: !(writePosition - freePosition < Margin - frameLength)
\* is "no space"; both sides are uint32_t.
HasFreeSpace(writePosition, freePosition, frameLength) ==
    PosDiff(writePosition, freePosition)
        < (InWords(Margin) - InWords(frameLength)) % PosMod

\* AcquireRegionForWrite: frameLengthAdj, the extension when the frame would end
\* inside the margin.
FrameLengthAdj(writePosition, frameLength) ==
    LET nextWriteOffset ==
            OffsetOf(PosAdd(writePosition, InWords(frameLength))) * WordSize
    IN  IF nextWriteOffset >= Margin THEN Size - nextWriteOffset ELSE 0

\* SendMessage returns to its caller: a plain send is over, TerminateControlChannel
\* returns too, TerminateFeedbackChannel goes on to notify and wait.
SendReturn(me) ==
    IF me.call = "feedback" THEN [WriterIdle EXCEPT !.pc = "terminate_notify"]
    ELSE IF me.call = "control" THEN [WriterIdle EXCEPT !.pc = "terminated"]
    ELSE WriterIdle

\* SendMessage entry: frame length of a message with serializedSize payload bytes.
SendMessageOf(w, serializedSize, kind) ==
    /\ WriterAt(w, "idle")
    /\ sendCount < MaxSends
    /\ kind \in VariableKinds => serializedSize >= StringPtrSize
    /\ LET frameLength == align(WordSize, FrameHeaderSize + serializedSize) IN
       /\ frameLength < Size      \* assert(expectedFrameLength < Size)
       /\ writer' = [writer EXCEPT ![w] =
              [WriterIdle EXCEPT !.pc = "acquire_load_free",
                                 !.expectedFrameLength = frameLength,
                                 !.frameLength = frameLength,
                                 !.kind = kind,
                                 !.msgId = sendCount + 1]]
    /\ sendCount' = sendCount + 1
    /\ UNCHANGED <<Sync, Buffer, semaphore, policy, dictionary, platformVars, reader, main, fault,
                   reservations, claims, dispatches, crashed>>

\* SendMessage of a message the reader's dispatch table knows
SendMessage(w, serializedSize) == SendMessageOf(w, serializedSize, "valid")

\* AcquireRegionForWrite: freePosition = Sync.FreePosition.load(acquire)
AcquireLoadFree(w) ==
    /\ WriterAt(w, "acquire_load_free")
    /\ writer' = [writer EXCEPT ![w].freePosition = Sync.FreePosition,
                                ![w].pc = "acquire_load_write"]
    /\ UNCHANGED <<Sync, Buffer, semaphore, policy, dictionary, platformVars, reader, main, fault, history>>

\* AcquireRegionForWrite: writePosition = Sync.WritePosition.load(relaxed) and
\* the free-space test.
AcquireLoadWrite(w) ==
    /\ WriterAt(w, "acquire_load_write")
    /\ writer' = [writer EXCEPT
          ![w].writePosition = Sync.WritePosition,
          ![w].pc = IF HasFreeSpace(Sync.WritePosition, writer[w].freePosition,
                                    writer[w].frameLength)
                    THEN "acquire_cas" ELSE "acquire_check_terminate"]
    /\ UNCHANGED <<Sync, Buffer, semaphore, policy, dictionary, platformVars, reader, main, fault, history>>

\* Variant of the no-space path without the TerminateChannel test: the writer
\* always goes on to AdvanceFreePosition and retries.
AcquireNoTerminateTest(w) ==
    /\ WriterAt(w, "acquire_check_terminate")
    /\ writer' = [writer EXCEPT ![w].pc = "free_load_free"]
    /\ UNCHANGED <<Sync, Buffer, semaphore, policy, dictionary, platformVars, reader, main, fault, history>>

\* AcquireRegionForWrite, no space: TerminateChannel set -> return uint32_t::max
\* and SendMessage ignores the send; otherwise AdvanceFreePosition and retry.
AcquireCheckTerminate(w) ==
    /\ WriterAt(w, "acquire_check_terminate")
    /\ writer' = [writer EXCEPT ![w] =
          IF Sync.TerminateChannel THEN SendReturn(@)
          ELSE [@ EXCEPT !.pc = "free_load_free"]]
    /\ UNCHANGED <<Sync, Buffer, semaphore, policy, dictionary, platformVars, reader, main, fault, history>>

\* Variant of the circular-region test that never finds a circular region.
NeverCircularRegion(writeOffset, frameLength) == FALSE

\* AcquireWriteRegionForFrame: writeOffset + frameLength > Size, the acquired
\* region runs over the end of the buffer (writeOffset in words).
IsCircularRegion(writeOffset, frameLength) ==
    writeOffset * WordSize + frameLength > Size

\* AcquireRegionForWrite: compare_exchange_weak on WritePosition; on success
\* frameLength += frameLengthAdj and writeOffset = writePosition % Size.
\* AcquireWriteRegionForFrame then tests writeOffset + frameLength > Size.
AcquireCas(w) ==
    /\ WriterAt(w, "acquire_cas")
    /\ LET me == writer[w]
           adj == FrameLengthAdj(me.writePosition, me.frameLength)
           length == me.frameLength + adj
           nextWritePosition == PosAdd(me.writePosition, InWords(length))
           offset == OffsetOf(me.writePosition)
       IN  IF Sync.WritePosition = me.writePosition
           THEN /\ Sync' = [Sync EXCEPT !.WritePosition = nextWritePosition]
                /\ writer' = [writer EXCEPT
                      ![w].frameLength = length,
                      ![w].writeOffset = offset,
                      ![w].resIndex = Len(reservations) + 1,
                      ![w].pc = IF IsCircularRegion(offset, length)
                                THEN "link_store_index" ELSE "send_store_incomplete"]
                /\ reservations' = Append(reservations,
                      [position |-> me.writePosition, frameLength |-> length,
                       expected |-> me.expectedFrameLength,
                       writer |-> w, msgId |-> me.msgId, kind |-> me.kind,
                       link |-> IsCircularRegion(offset, length),
                       written |-> FALSE])
           ELSE /\ writer' = [writer EXCEPT ![w].pc = "acquire_load_free"]
                /\ UNCHANGED <<Sync, reservations>>
    /\ UNCHANGED <<Buffer, semaphore, policy, dictionary, platformVars, reader, main, fault,
                   sendCount, claims, dispatches, crashed>>

\* AcquireWriteRegionForFrame, circular region: frame.CodegenTypeIndex = 0
LinkStoreIndex(w) ==
    /\ WriterAt(w, "link_store_index")
    /\ Buffer' = [Buffer EXCEPT ![writer[w].writeOffset + 1] = 0]
    /\ writer' = [writer EXCEPT ![w].pc = "link_signal_ready"]
    /\ UNCHANGED <<Sync, semaphore, policy, dictionary, platformVars, reader, main, fault, history>>

\* AcquireWriteRegionForFrame, circular region: SignalFrameIsReady(frame,
\* frameLength); continue (frameLength = expectedFrameLength, acquire again).
LinkSignalReady(w) ==
    /\ WriterAt(w, "link_signal_ready")
    /\ Buffer' = [Buffer EXCEPT ![writer[w].writeOffset] = writer[w].frameLength]
    /\ writer' = [writer EXCEPT ![w].pc = "acquire_load_free",
                                ![w].frameLength = writer[w].expectedFrameLength,
                                ![w].writeOffset = 0,
                                ![w].resIndex = 0]
    /\ reservations' = [reservations EXCEPT ![writer[w].resIndex].written = TRUE]
    /\ UNCHANGED <<Sync, semaphore, policy, dictionary, platformVars, reader, main, fault,
                   sendCount, claims, dispatches, crashed>>

\* SendMessage: frame.Length.store(frameLength | 1)
SendStoreIncomplete(w) ==
    /\ WriterAt(w, "send_store_incomplete")
    /\ Buffer' = [Buffer EXCEPT
          ![writer[w].writeOffset] = SetLowBit(writer[w].frameLength)]
    /\ writer' = [writer EXCEPT ![w].pc = "send_store_body"]
    /\ UNCHANGED <<Sync, semaphore, policy, dictionary, platformVars, reader, main, fault, history>>

\* the words of the frame at offset after the writer stored type index, type
\* hash and the serialized payload of msgId (expectedFrameLength bytes in all)
FrameBody(buf, offset, expectedFrameLength, msgId, kind) ==
    [i \in 0 .. NumWords - 1 |->
        IF i = offset + 1 THEN FrameTypeIndex(kind)
        ELSE IF i = offset + 2 THEN FrameTypeHash(kind)[1]
        ELSE IF i = offset + 3 THEN FrameTypeHash(kind)[2]
        ELSE IF i >= offset + 4 /\ i < offset + InWords(expectedFrameLength)
             THEN SerializedWord(i - offset - 3, PayloadWords(expectedFrameLength),
                                 msgId, kind)
        ELSE buf[i]]

\* SendMessage: CodegenTypeIndex, CodegenTypeHash, ObjectSerialization::Serialize
SendStoreBody(w) ==
    /\ WriterAt(w, "send_store_body")
    /\ Buffer' = FrameBody(Buffer, writer[w].writeOffset,
                           writer[w].expectedFrameLength, writer[w].msgId,
                           writer[w].kind)
    /\ writer' = [writer EXCEPT ![w].pc = "send_signal_ready"]
    /\ UNCHANGED <<Sync, semaphore, policy, dictionary, platformVars, reader, main, fault, history>>

\* SendMessage: SignalFrameIsReady(frame, frameLength)
SendSignalReady(w) ==
    /\ WriterAt(w, "send_signal_ready")
    /\ Buffer' = [Buffer EXCEPT ![writer[w].writeOffset] = writer[w].frameLength]
    /\ writer' = [writer EXCEPT ![w].pc = "send_check_waiters"]
    /\ reservations' = [reservations EXCEPT ![writer[w].resIndex].written = TRUE]
    /\ UNCHANGED <<Sync, semaphore, policy, dictionary, platformVars, reader, main, fault,
                   sendCount, claims, dispatches, crashed>>

\* SendMessage: if (HasReadersInWaitingState()) NotifyExternalReader()
SendCheckWaiters(w) ==
    /\ WriterAt(w, "send_check_waiters")
    /\ writer' = [writer EXCEPT ![w] =
          IF Sync.ReaderInWaitingStateCount # 0
          THEN [@ EXCEPT !.pc = "send_notify"] ELSE SendReturn(@)]
    /\ UNCHANGED <<Sync, Buffer, semaphore, policy, dictionary, platformVars, reader, main, fault, history>>

\* ChannelPolicy.NotifyExternalReader(): sem_post for the inter-process policy,
\* nothing for the internal one.
NotifyExternalReader(sem) ==
    IF policy = "interprocess" THEN sem + 1 ELSE sem

SendNotify(w) ==
    /\ WriterAt(w, "send_notify")
    /\ semaphore' = NotifyExternalReader(semaphore)
    /\ writer' = [writer EXCEPT ![w] = SendReturn(@)]
    /\ UNCHANGED <<Sync, Buffer, policy, dictionary, platformVars, reader, main, fault, history>>

\* ---- AdvanceFreePosition.  The caller is a writer that found no space
\* (returns to the acquire loop) or InitializeChannel (main thread).
\* freePosition = Sync.FreePosition.load(acquire)
AdvanceLoadFree(me) ==
    [me EXCEPT !.afFree = Sync.FreePosition, !.pc = "free_load_read"]

\* the caller's locals on return from AdvanceFreePosition
AdvanceReturn(me) ==
    [me EXCEPT !.pc = me.afReturn, !.afFree = 0, !.afRead = 0, !.afLength = 0]

\* readPosition = Sync.ReadPosition.load(relaxed); return when equal
AdvanceLoadRead(me) ==
    IF me.afFree = Sync.ReadPosition THEN AdvanceReturn(me)
    ELSE [me EXCEPT !.afRead = Sync.ReadPosition, !.pc = "free_load_length"]

\* frameLength = frame.Length.load(acquire); return when frameLength >= 0
AdvanceLoadLength(me) ==
    LET length == Buffer[OffsetOf(me.afFree)] IN
    IF length >= 0 THEN AdvanceReturn(me)
    ELSE [me EXCEPT !.afLength = length, !.pc = "free_cas"]

\* nextFreePosition = freePosition - frameLength (frameLength is negative)
NextFreePosition(freePosition, frameLength) ==
    (freePosition - InWords(frameLength)) % PosMod

\* compare_exchange_weak on FreePosition; loop while freePosition != readPosition
AdvanceCasSucceeds(me) == Sync.FreePosition = me.afFree

\* the CAS moves FreePosition off 4-byte alignment: the next Length load is a
\* misaligned atomic access
AdvanceFaults(me) == AdvanceCasSucceeds(me) /\ Misaligned(me.afLength)

AdvanceCas(me) ==
    LET nextFreePosition == NextFreePosition(me.afFree, me.afLength) IN
    IF AdvanceCasSucceeds(me)
    THEN IF nextFreePosition = me.afRead THEN AdvanceReturn(me)
         ELSE [me EXCEPT !.afFree = nextFreePosition, !.afLength = 0,
                         !.pc = "free_load_length"]
    ELSE AdvanceReturn(me)

AdvanceCasSync(me) ==
    IF AdvanceCasSucceeds(me) /\ ~ Misaligned(me.afLength)
    THEN [Sync EXCEPT !.FreePosition = NextFreePosition(me.afFree, me.afLength)]
    ELSE Sync

FreeLoadFree(w) ==
    /\ WriterAt(w, "free_load_free")
    /\ writer' = [writer EXCEPT ![w] = AdvanceLoadFree(@)]
    /\ UNCHANGED <<Sync, Buffer, semaphore, policy, dictionary, platformVars, reader, main, fault, history>>

FreeLoadRead(w) ==
    /\ WriterAt(w, "free_load_read")
    /\ writer' = [writer EXCEPT ![w] = AdvanceLoadRead(@)]
    /\ UNCHANGED <<Sync, Buffer, semaphore, policy, dictionary, platformVars, reader, main, fault, history>>

FreeLoadLength(w) ==
    /\ WriterAt(w, "free_load_length")
    /\ writer' = [writer EXCEPT ![w] = AdvanceLoadLength(@)]
    /\ UNCHANGED <<Sync, Buffer, semaphore, policy, dictionary, platformVars, reader, main, fault, history>>

\* Variant of the compare-exchange step of AdvanceFreePosition that also
\* clears the Length word of the frame it passes.
FreeCasClearsHeader(w) ==
    /\ WriterAt(w, "free_cas")
    /\ writer' = [writer EXCEPT ![w] = AdvanceCas(@)]
    /\ Sync' = AdvanceCasSync(writer[w])
    /\ fault' = AdvanceFaults(writer[w])
    /\ Buffer' = IF AdvanceCasSucceeds(writer[w])
                 THEN [Buffer EXCEPT ![OffsetOf(writer[w].afFree)] = 0]
                 ELSE Buffer
    /\ UNCHANGED <<semaphore, policy, dictionary, platformVars, reader, main, history>>

FreeCas(w) ==
    /\ WriterAt(w, "free_cas")
    /\ writer' = [writer EXCEPT ![w] = AdvanceCas(@)]
    /\ Sync' = AdvanceCasSync(writer[w])
    /\ fault' = AdvanceFaults(writer[w])
    /\ UNCHANGED <<Buffer, semaphore, policy, dictionary, platformVars, reader, main, history>>

\* ---- MlosContext::TerminateFeedbackChannel / TerminateControlChannel, called
\* by a thread of the process that owns the context (here: a writer thread).
\* sizeof(TerminateReaderThreadRequestMessage), an empty struct
TerminateMessageSize == 1

\* Sync.TerminateChannel = true; SendMessage(TerminateReaderThreadRequestMessage())
TerminateChannel(w, channel) ==
    /\ WriterAt(w, "idle")
    /\ ~ Sync.TerminateChannel
    /\ sendCount < MaxSends
    /\ Sync' = [Sync EXCEPT !.TerminateChannel = TRUE]
    /\ LET frameLength == align(WordSize, FrameHeaderSize + TerminateMessageSize) IN
       writer' = [writer EXCEPT ![w] =
              [WriterIdle EXCEPT !.pc = "acquire_load_free",
                                 !.call = channel,
                                 !.expectedFrameLength = frameLength,
                                 !.frameLength = frameLength,
                                 !.msgId = sendCount + 1]]
    /\ sendCount' = sendCount + 1
    /\ UNCHANGED <<Buffer, semaphore, policy, dictionary, platformVars, reader, main, fault,
                   reservations, claims, dispatches, crashed>>

\* TerminateFeedbackChannel: m_feedbackChannel.NotifyExternalReader()
TerminateNotify(w) ==
    /\ WriterAt(w, "terminate_notify")
    /\ semaphore' = NotifyExternalReader(semaphore)
    /\ writer' = [writer EXCEPT ![w].pc = "terminate_wait"]
    /\ UNCHANGED <<Sync, Buffer, policy, dictionary, platformVars, reader, main, fault, history>>

\* TerminateFeedbackChannel: while (ActiveReaderCount.load() != 0) sleep;
\* the step is the load that ends the loop.
TerminateWait(w) ==
    /\ WriterAt(w, "terminate_wait")
    /\ Sync.ActiveReaderCount = 0
    /\ writer' = [writer EXCEPT ![w] = [WriterIdle EXCEPT !.pc = "terminated"]]
    /\ UNCHANGED <<Sync, Buffer, semaphore, policy, dictionary, platformVars, reader, main, fault, history>>

WriterStep(w) ==
    \/ AcquireLoadFree(w)
    \/ AcquireLoadWrite(w)
    \/ AcquireCheckTerminate(w)
    \/ AcquireCas(w)
    \/ LinkStoreIndex(w)
    \/ LinkSignalReady(w)
    \/ SendStoreIncomplete(w)
    \/ SendStoreBody(w)
    \/ SendSignalReady(w)
    \/ SendCheckWaiters(w)
    \/ SendNotify(w)
    \/ FreeLoadFree(w)
    \/ FreeLoadRead(w)
    \/ FreeLoadLength(w)
    \/ FreeCas(w)

TerminateStep(w) ==
    \/ TerminateNotify(w)
    \/ TerminateWait(w)

\* ============================================================== READER ====
\* ProcessMessages: Sync.ActiveReaderCount.fetch_add(1), then the reader loop
ProcessMessages(r) ==
    /\ ReaderAt(r, "idle")
    /\ Sync' = [Sync EXCEPT !.ActiveReaderCount = @ + 1]
    /\ reader' = [reader EXCEPT ![r] = ReaderWaiting]
    /\ UNCHANGED <<Buffer, semaphore, policy, dictionary, platformVars, writer, main, fault, history>>

\* WaitForFrame: readPosition = Sync.ReadPosition.load(acquire)
WaitLoadRead(r) ==
    /\ ReaderAt(r, "wait_load_read")
    /\ reader' = [reader EXCEPT ![r].readPosition = Sync.ReadPosition,
                                ![r].readOffset = OffsetOf(Sync.ReadPosition),
                                ![r].pc = "wait_load_length"]
    /\ UNCHANGED <<Sync, Buffer, semaphore, policy, dictionary, platformVars, writer, main, fault, history>>

\* WaitForFrame: frameLength = frame.Length.load(relaxed); frameLength > 0 ?
WaitLoadLength(r) ==
    /\ ReaderAt(r, "wait_load_length")
    /\ LET length == Buffer[reader[r].readOffset] IN
       reader' = [reader EXCEPT ![r] =
          IF length > 0
          THEN [@ EXCEPT !.frameLength = length, !.pc = "wait_cas"]
          ELSE [@ EXCEPT !.frameLength = 0, !.pc = "wait_check_terminate"]]
    /\ UNCHANGED <<Sync, Buffer, semaphore, policy, dictionary, platformVars, writer, main, fault, history>>

\* nextReadPosition = readPosition + (frameLength & (~1))
NextReadPosition(readPosition, frameLength) ==
    PosAdd(readPosition, InWords(ClearLowBit(frameLength)))

\* WaitForFrame leaves the loop with the frame: fetch_sub(shouldWait) is next
\* (a fetch_sub of 0 when the reader had not opted in).
WaitGotFrame(me) ==
    [me EXCEPT !.pc = IF me.shouldWait THEN "wait_reset_count" ELSE "dispatch_read"]

\* WaitForFrame: compare_exchange_weak on ReadPosition
WaitCas(r) ==
    /\ ReaderAt(r, "wait_cas")
    /\ LET me == reader[r] IN
       IF Sync.ReadPosition = me.readPosition
       THEN /\ Sync' = [Sync EXCEPT !.ReadPosition =
                           NextReadPosition(me.readPosition, me.frameLength)]
            /\ claims' = Append(claims,
                  [position |-> me.readPosition, reader |-> r,
                   frameLength |-> ClearLowBit(me.frameLength)])
            /\ reader' = [reader EXCEPT ![r] =
                  IF LowBit(me.frameLength) = 1
                  THEN [me EXCEPT !.pc = "wait_completion"]
                  ELSE WaitGotFrame(me)]
       ELSE /\ reader' = [reader EXCEPT ![r].pc = "wait_load_read",
                                        ![r].frameLength = 0]
            /\ UNCHANGED <<Sync, claims>>
    /\ UNCHANGED <<Buffer, semaphore, policy, dictionary, platformVars, writer, main, fault,
                   sendCount, reservations, dispatches, crashed>>

\* WaitForFrame: while ((frameLength & 1) == 1) frameLength = frame.Length.load(acquire)
WaitCompletion(r) ==
    /\ ReaderAt(r, "wait_completion")
    /\ LET length == Buffer[reader[r].readOffset] IN
       reader' = [reader EXCEPT ![r] =
          IF LowBit(length) = 1 THEN [@ EXCEPT !.frameLength = length]
          ELSE WaitGotFrame([@ EXCEPT !.frameLength = length])]
    /\ UNCHANGED <<Sync, Buffer, semaphore, policy, dictionary, platformVars, writer, main, fault, history>>

\* WaitForFrame: Sync.ReaderInWaitingStateCount.fetch_sub(shouldWait) after the loop
WaitResetCount(r) ==
    /\ ReaderAt(r, "wait_reset_count")
    /\ Sync' = [Sync EXCEPT !.ReaderInWaitingStateCount = @ - 1]
    /\ reader' = [reader EXCEPT ![r].pc = "dispatch_read"]
    /\ UNCHANGED <<Buffer, semaphore, policy, dictionary, platformVars, writer, main, fault, history>>

\* WaitForFrame, no frame: TerminateChannel set -> return uint32_t::max (the
\* reader loop of ProcessMessages ends); else wait or opt in.
WaitCheckTerminate(r) ==
    /\ ReaderAt(r, "wait_check_terminate")
    /\ reader' = [reader EXCEPT ![r].pc =
          IF Sync.TerminateChannel THEN "exit"
          ELSE IF reader[r].shouldWait THEN "wait_for_frame" ELSE "wait_opt_in"]
    /\ UNCHANGED <<Sync, Buffer, semaphore, policy, dictionary, platformVars, writer, main, fault, history>>

\* WaitForFrame: shouldWait = true; ReaderInWaitingStateCount.fetch_add(1)
WaitOptIn(r) ==
    /\ ReaderAt(r, "wait_opt_in")
    /\ Sync' = [Sync EXCEPT !.ReaderInWaitingStateCount = @ + 1]
    /\ reader' = [reader EXCEPT ![r].shouldWait = TRUE, ![r].pc = "wait_load_read"]
    /\ UNCHANGED <<Buffer, semaphore, policy, dictionary, platformVars, writer, main, fault, history>>

\* ChannelPolicy.WaitForFrame(): sem_wait for the inter-process policy (blocks
\* while the count is 0), nothing for the internal policy.
CanWaitReturn == policy = "internal" \/ semaphore > 0

WaitForFrame(r) ==
    /\ ReaderAt(r, "wait_for_frame")
    /\ CanWaitReturn
    /\ semaphore' = IF policy = "interprocess" THEN semaphore - 1 ELSE semaphore
    /\ reader' = [reader EXCEPT ![r].pc = "wait_opt_out"]
    /\ UNCHANGED <<Sync, Buffer, policy, dictionary, platformVars, writer, main, fault, history>>

\* WaitForFrame: ReaderInWaitingStateCount.fetch_sub(1); shouldWait = false
WaitOptOut(r) ==
    /\ ReaderAt(r, "wait_opt_out")
    /\ Sync' = [Sync EXCEPT !.ReaderInWaitingStateCount = @ - 1]
    /\ reader' = [reader EXCEPT ![r].shouldWait = FALSE, ![r].pc = "wait_load_read"]
    /\ UNCHANGED <<Buffer, semaphore, policy, dictionary, platformVars, writer, main, fault, history>>

\* ---- WaitAndDispatchFrame after WaitForFrame returned an offset
\* the frame header and payload lie inside the buffer
FrameReadable(offset, frameLength) ==
    /\ frameLength >= FrameHeaderSize
    /\ offset + InWords(frameLength) <= NumWords

\* isMessageValid before the callback: (uint32_t)frameLength < Size and the
\* hash of the dispatch table entry equals the frame's
HeaderValid(frameLength, hash, expectedHash) ==
    /\ frameLength >= 0
    /\ frameLength < Size
    /\ hash = expectedHash

\* codegenTypeIndex != 0 && codegenTypeIndex <= dispatchEntryCount (uint32_t)
IndexInTable(codegenTypeIndex) ==
    codegenTypeIndex > 0 /\ codegenTypeIndex <= DispatchEntryCount

\* payload words the callback reads
PayloadOf(buf, offset, frameLength) ==
    [k \in 1 .. PayloadWords(frameLength) |-> buf[offset + 3 + k]]

\* ObjectSerialization::VerifyVariableData of a StringViewElement:
\* expectedDataOffset = sizeof(object), totalDataSize = frameLength -
\* expectedDataOffset; the view fails when Length > totalDataSize or when its
\* reference is not expectedDataOffset; then expectedDataOffset += Length and
\* sizeof(FrameHeader) + expectedDataOffset <= frameLength.
VerifyVariableData(payload, frameLength) ==
    /\ Len(payload) * WordSize >= StringPtrSize
    /\ payload[2] <= frameLength - StringPtrSize
    /\ payload[1] = StringPtrSize
    /\ payload[2] >= 0
    /\ FrameHeaderSize + StringPtrSize + payload[2] <= frameLength

\* dispatchTable[codegenTypeIndex - 1].Callback: the verification of a
\* fixed-size type is a no-op, the handler itself returns true
Callback(codegenTypeIndex, payload, frameLength) ==
    codegenTypeIndex = StringViewElementIndex =>
        VerifyVariableData(payload, frameLength)

\* Variant of the step after an invalid frame in which the hook of the
\* inter-process policy throws as the hook of the internal policy does.
InvalidFrameAlwaysThrows(invalid) ==
    IF invalid THEN "thrown" ELSE "dispatch_clear"

\* ChannelPolicy.ReceivedInvalidFrame(): the internal policy throws, the
\* inter-process policy does nothing and WaitAndDispatchFrame goes on to clear.
AfterReceivedFrame(invalid) ==
    IF invalid /\ policy = "internal" THEN "thrown" ELSE "dispatch_clear"

\* WaitAndDispatchFrame: read CodegenTypeIndex, CodegenTypeHash, Length; call
\* the callback of a valid frame, ReceivedInvalidFrame for an invalid one.
DispatchRead(r) ==
    /\ ReaderAt(r, "dispatch_read")
    /\ LET me == reader[r]
           offset == me.readOffset
           length == Buffer[offset]
       IN  IF ~ (offset + 3 < NumWords)
           THEN \* the header read runs past the end of the buffer
                /\ fault' = TRUE
                /\ UNCHANGED <<reader, dispatches>>
           ELSE LET index == Buffer[offset + 1]
                    hash == <<Buffer[offset + 2], Buffer[offset + 3]>>
                    headerValid ==
                        /\ IndexInTable(index)
                        /\ HeaderValid(length, hash, ExpectedTypeHash(index))
                    valid ==
                        /\ headerValid
                        /\ Callback(index, PayloadOf(Buffer, offset, length), length)
                IN  IF headerValid /\ ~ FrameReadable(offset, length)
                    THEN /\ fault' = TRUE
                         /\ UNCHANGED <<reader, dispatches>>
                    ELSE /\ dispatches' =
                              IF valid
                              THEN Append(dispatches,
                                     [position |-> me.readPosition, reader |-> r,
                                      payload |-> PayloadOf(Buffer, offset, length)])
                              ELSE dispatches
                         /\ reader' = [reader EXCEPT ![r] =
                               [me EXCEPT !.frameLength = length,
                                          !.codegenTypeIndex = index,
                                          !.invalid = (index # 0 /\ ~ valid),
                                          !.pc = AfterReceivedFrame(
                                                     index # 0 /\ ~ valid)]]
                         /\ UNCHANGED fault
    /\ UNCHANGED <<Sync, Buffer, semaphore, policy, dictionary, platformVars, writer, main,
                   sendCount, reservations, claims, crashed>>

\* Variant of ClearPayload that leaves the frame as it is.
ClearNothing(buf, offset, frameLength) == buf

\* ClearPayload: memset(Buffer + writeOffset + 4, 0, frameLength - 4)
ClearPayload(buf, offset, frameLength) ==
    StoreWords(buf, offset + 1, offset + InWords(frameLength) - 1, 0)

\* the memset of ClearPayload stays inside the buffer
ClearPayloadInBuffer(offset, frameLength) ==
    /\ frameLength >= WordSize
    /\ offset + InWords(frameLength) <= NumWords

\* ClearLinkPayload: the same, wrapping to the start of the buffer when
\* writeOffset + frameLength > bufferSize
ClearLinkPayload(buf, offset, frameLength) ==
    LET first == offset + 1
        words == InWords(frameLength) - 1
    IN  IF first + words > NumWords
        THEN StoreWords(StoreWords(buf, first, NumWords - 1, 0),
                        0, words + first - NumWords - 1, 0)
        ELSE StoreWords(buf, first, first + words - 1, 0)

ClearLinkPayloadInBuffer(offset, frameLength) ==
    /\ frameLength >= WordSize
    /\ InWords(frameLength) - 1 + (offset + 1) - NumWords <= NumWords

\* WaitAndDispatchFrame: ClearPayload / ClearLinkPayload
DispatchClear(r) ==
    /\ ReaderAt(r, "dispatch_clear")
    /\ LET me == reader[r]
           link == me.codegenTypeIndex = 0
           inside == IF link THEN ClearLinkPayloadInBuffer(me.readOffset, me.frameLength)
                     ELSE ClearPayloadInBuffer(me.readOffset, me.frameLength)
       IN  IF inside
           THEN /\ Buffer' = IF link
                             THEN ClearLinkPayload(Buffer, me.readOffset, me.frameLength)
                             ELSE ClearPayload(Buffer, me.readOffset, me.frameLength)
                /\ reader' = [reader EXCEPT ![r].pc = "dispatch_signal_cleanup"]
                /\ UNCHANGED fault
           ELSE /\ fault' = TRUE
                /\ UNCHANGED <<Buffer, reader>>
    /\ UNCHANGED <<Sync, semaphore, policy, dictionary, platformVars, writer, main, history>>

\* SignalFrameForCleanup: frame.Length.store(-frameLength); WaitAndDispatchFrame
\* returns true and ProcessMessages calls it again.
DispatchSignalCleanup(r) ==
    /\ ReaderAt(r, "dispatch_signal_cleanup")
    /\ Buffer' = [Buffer EXCEPT ![reader[r].readOffset] = - reader[r].frameLength]
    /\ reader' = [reader EXCEPT ![r] = ReaderWaiting]
    /\ UNCHANGED <<Sync, semaphore, policy, dictionary, platformVars, writer, main, fault, history>>

\* ProcessMessages: Sync.ActiveReaderCount.fetch_sub(1)
ProcessMessagesExit(r) ==
    /\ ReaderAt(r, "exit")
    /\ Sync' = [Sync EXCEPT !.ActiveReaderCount = @ - 1]
    /\ reader' = [reader EXCEPT ![r] = [ReaderIdle EXCEPT !.pc = "done"]]
    /\ UNCHANGED <<Buffer, semaphore, policy, dictionary, platformVars, writer, main, fault, history>>

ReaderStep(r) ==
    \/ WaitLoadRead(r)
    \/ WaitLoadLength(r)
    \/ WaitCas(r)
    \/ WaitCompletion(r)
    \/ WaitResetCount(r)
    \/ WaitCheckTerminate(r)
    \/ WaitOptIn(r)
    \/ WaitForFrame(r)
    \/ WaitOptOut(r)
    \/ DispatchRead(r)
    \/ DispatchClear(r)
    \/ DispatchSignalCleanup(r)

\* ==================================================== CRASH AND RESTART ====
\* The processes attached to the channel die at an arbitrary point; every
\* thread stops where it is and shared memory stays as it was.  A new owner
\* then constructs the channel, which runs InitializeChannel.
Crash ==
    /\ crashed = <<>>
    /\ MainAt("running")
    /\ crashed' = <<[Sync |-> Sync, Buffer |-> Buffer, reader |-> reader,
                     reservations |-> reservations, dispatches |-> dispatches]>>
    /\ writer' = [w \in Writers |-> WriterIdle]
    /\ reader' = [r \in Readers |-> ReaderIdle]
    /\ main' = [MainIdle EXCEPT !.pc = "init_store_terminate"]
    /\ UNCHANGED <<Sync, Buffer, semaphore, policy, dictionary, platformVars, fault,
                   sendCount, reservations, claims, dispatches>>

\* InitializeChannel: Sync.TerminateChannel.store(false); AdvanceFreePosition()
InitStoreTerminate ==
    /\ MainAt("init_store_terminate")
    /\ Sync' = [Sync EXCEPT !.TerminateChannel = FALSE]
    /\ main' = [main EXCEPT !.pc = "free_load_free"]
    /\ UNCHANGED <<Buffer, semaphore, policy, dictionary, platformVars, writer, reader, fault, history>>

InitFreeLoadFree ==
    /\ MainAt("free_load_free")
    /\ main' = AdvanceLoadFree(main)
    /\ UNCHANGED <<Sync, Buffer, semaphore, policy, dictionary, platformVars, writer, reader, fault, history>>

InitFreeLoadRead ==
    /\ MainAt("free_load_read")
    /\ main' = AdvanceLoadRead(main)
    /\ UNCHANGED <<Sync, Buffer, semaphore, policy, dictionary, platformVars, writer, reader, fault, history>>

InitFreeLoadLength ==
    /\ MainAt("free_load_length")
    /\ main' = AdvanceLoadLength(main)
    /\ UNCHANGED <<Sync, Buffer, semaphore, policy, dictionary, platformVars, writer, reader, fault, history>>

InitFreeCas ==
    /\ MainAt("free_cas")
    /\ main' = AdvanceCas(main)
    /\ Sync' = AdvanceCasSync(main)
    /\ fault' = AdvanceFaults(main)
    /\ UNCHANGED <<Buffer, semaphore, policy, dictionary, platformVars, writer, reader, history>>

\* InitializeChannel: load FreePosition and WritePosition for the walk
InitLoadPositions ==
    /\ MainAt("init_load_positions")
    /\ main' = [main EXCEPT !.freePosition = Sync.FreePosition,
                            !.writePosition = Sync.WritePosition,
                            !.pc = "init_walk"]
    /\ UNCHANGED <<Sync, Buffer, semaphore, policy, dictionary, platformVars, writer, reader, fault, history>>

\* frameLength = frameLength > 0 ? frameLength : -frameLength; frameLength &= ~1
RecoveredLength(frameLength) ==
    ClearLowBit(IF frameLength > 0 THEN frameLength ELSE - frameLength)

\* the frame was processed, or partially written
NeedsRecovery(frameLength) == frameLength < 0 \/ LowBit(frameLength) = 1

\* The walk is followed for MaxWalkLaps times the length of the buffer; a
\* walk that has stepped over WritePosition goes on around the ring and is
\* not followed further.
MaxWalkLaps == 2

WalkWithinLaps ==
    PosDiff(main.freePosition, Sync.FreePosition) <= MaxWalkLaps * NumWords

\* InitializeChannel: one iteration of while (freePosition != writePosition)
InitWalk ==
    /\ MainAt("init_walk")
    /\ main.freePosition # main.writePosition
    /\ WalkWithinLaps
    /\ LET freeOffset == OffsetOf(main.freePosition)
           length == Buffer[freeOffset]
           recovered == IF NeedsRecovery(length) THEN RecoveredLength(length)
                        ELSE length
       IN  IF \/ NeedsRecovery(length) /\ ~ ClearPayloadInBuffer(freeOffset, recovered)
              \/ Misaligned(recovered)
           THEN /\ fault' = TRUE
                /\ UNCHANGED <<Buffer, main>>
           ELSE /\ Buffer' = IF NeedsRecovery(length)
                             THEN [ClearPayload(Buffer, freeOffset, recovered)
                                       EXCEPT ![freeOffset] = recovered]
                             ELSE Buffer
                /\ main' = [main EXCEPT !.freePosition =
                               PosAdd(main.freePosition, InWords(recovered))]
                /\ UNCHANGED fault
    /\ UNCHANGED <<Sync, semaphore, policy, dictionary, platformVars, writer, reader, history>>

\* InitializeChannel: ReadPosition.compare_exchange_strong(readPosition, freePosition)
InitSetRead ==
    /\ MainAt("init_walk")
    /\ main.freePosition = main.writePosition
    /\ Sync' = [Sync EXCEPT !.ReadPosition = Sync.FreePosition]
    /\ main' = MainIdle
    /\ UNCHANGED <<Buffer, semaphore, policy, dictionary, platformVars, writer, reader, fault, history>>

InitializeChannel ==
    \/ InitStoreTerminate
    \/ InitFreeLoadFree
    \/ InitFreeLoadRead
    \/ InitFreeLoadLength
    \/ InitFreeCas
    \/ InitLoadPositions
    \/ InitWalk
    \/ InitSetRead

\* ======================================================= SPECIFICATIONS ====
\* serialized sizes of the messages sent.  With Size = 64 (Margin = 48):
\* 4, 8 and 28 bytes give frames of 20, 24 and 44 bytes; 36 bytes give a
\* frame of 52 bytes, which SendMessage accepts (52 < Size) although it is
\* longer than Margin.
SerializedSizes == {8, 36}
FittingSizes == {4, 8, 28}

Init == InitWith("interprocess")

\* writers Ws send up to `sends` messages of the given sizes, readers Rs run
\* ProcessMessages
Running(Ws, Rs, sizes, sends) ==
    \/ \E w \in Ws, n \in sizes : sendCount < sends /\ SendMessage(w, n)
    \/ \E w \in Ws : WriterStep(w)
    \/ \E r \in Rs : ProcessMessages(r)
    \/ \E r \in Rs : ReaderStep(r)

\* Spec: all writers, one reader, every accepted frame length
Next == Running(Writers, {1}, SerializedSizes, PairSends)

Spec == Init /\ [][Next]_vars

\* SpecReaders: one writer, all readers, every accepted frame length
NextReaders == Running({1}, Readers, SerializedSizes, PairSends)

SpecReaders == Init /\ [][NextReaders]_vars

\* SpecMargin: one writer, one reader, only frames shorter than Margin
NextMargin == Running({1}, {1}, FittingSizes, MaxSends)

SpecMargin == Init /\ [][NextMargin]_vars

\* SpecTerminate: the context thread (writer 1) sends messages and then calls
\* TerminateFeedbackChannel; all readers
MessageSizes == {8, 28}

NextTerminate ==
    \/ Running({1}, Readers, MessageSizes, PairSends)
    \/ TerminateChannel(1, "feedback")
    \/ TerminateStep(1)
    \/ \E r \in Readers : ProcessMessagesExit(r)

SpecTerminate == Init /\ [][NextTerminate]_vars

\* SpecControl: writer 1 sends messages while writer 2 calls
\* TerminateControlChannel; one reader
NextControl ==
    \/ Running({1}, {1}, MessageSizes, PairSends)
    \/ TerminateChannel(2, "control")
    \/ WriterStep(2)
    \/ ProcessMessagesExit(1)

SpecControl == Init /\ [][NextControl]_vars

\* SpecRestart: one writer and one reader; the processes die at any point and
\* the channel is constructed again over the same shared memory
NextRestart ==
    \/ Running({1}, {1}, MessageSizes, PairSends)
    \/ Crash
    \/ InitializeChannel

SpecRestart == Init /\ [][NextRestart]_vars

\* ================================================================ CLAIMS ====
\* every length that moves ReadPosition keeps it 4-byte aligned (FreePosition
\* and the InitializeChannel walk fault instead), so the word positions of the
\* model stand for the byte positions of the code
Aligned ==
    \A r \in Readers :
        reader[r].pc = "wait_cas" => ~ Misaligned(ClearLowBit(reader[r].frameLength))

\* C1: in every reachable state WritePosition - FreePosition (unsigned) is at
\* most Size - sizeof(FrameHeader).
C1_WriteWithinMargin ==
    PosDiff(Sync.WritePosition, Sync.FreePosition) <= InWords(Size - FrameHeaderSize)

\* C2: in every reachable state FreePosition <= ReadPosition <= WritePosition
\* in unsigned modular order, and WritePosition - FreePosition < Size.
C2_PositionOrder ==
    /\ PosDiff(Sync.ReadPosition, Sync.FreePosition)
          <= PosDiff(Sync.WritePosition, Sync.FreePosition)
    /\ PosDiff(Sync.WritePosition, Sync.FreePosition) < NumWords

\* every writer is outside SendMessage, no reader holds a frame, and the
\* readers have caught up with the writers
Settled ==
    /\ \A w \in Writers : writer[w].pc \in {"idle", "terminated"}
    /\ \A r \in Readers :
          reader[r].pc \in {"idle", "done", "wait_load_read", "wait_load_length",
                            "wait_check_terminate", "wait_opt_in",
                            "wait_for_frame", "wait_opt_out"}
    /\ Sync.ReadPosition = Sync.WritePosition

\* reservations of message frames (not link frames) whose writer published them
MessageFrames ==
    {i \in DOMAIN reservations : ~ reservations[i].link /\ reservations[i].written}

DispatchesOf(i) ==
    {k \in DOMAIN dispatches : dispatches[k].position = reservations[i].position}

\* C3: with N readers every complete frame is dispatched by exactly one
\* reader: no dispatch without a frame, no frame dispatched twice, and once
\* the readers have caught up every message sent has been dispatched.
C3_ExactlyOnce ==
    /\ \A k \in DOMAIN dispatches :
          \E i \in DOMAIN reservations :
              ~ reservations[i].link /\ reservations[i].position = dispatches[k].position
    /\ \A i \in DOMAIN reservations : Cardinality(DispatchesOf(i)) <= 1
    /\ Settled => \A i \in MessageFrames : Cardinality(DispatchesOf(i)) = 1

\* the payload the writer of reservation i serialized
WrittenPayload(i) ==
    [k \in 1 .. PayloadWords(reservations[i].expected) |->
        PayloadWord(reservations[i].msgId)]

\* C4: every dispatched frame carries exactly what the writer that reserved
\* it wrote (type index and hash were checked by the reader; the payload is
\* compared here).
C4_FrameIntegrity ==
    \A k \in DOMAIN dispatches :
        \E i \in DOMAIN reservations :
            /\ reservations[i].position = dispatches[k].position
            /\ ~ reservations[i].link
            /\ Len(dispatches[k].payload) >= Len(WrittenPayload(i))
            /\ SubSeq(dispatches[k].payload, 1, Len(WrittenPayload(i)))
                  = WrittenPayload(i)

\* C5: frames are claimed in reservation order: the k-th successful
\* ReadPosition CAS claims the k-th reserved frame.
C5_ClaimOrder ==
    \A k \in DOMAIN claims :
        /\ k <= Len(reservations)
        /\ claims[k].position = reservations[k].position
        /\ claims[k].frameLength = reservations[k].frameLength

\* ---- blocked threads
\* reader r sleeps in sem_wait and no post is pending
ReaderBlocked(r) ==
    policy = "interprocess" /\ reader[r].pc = "wait_for_frame" /\ semaphore = 0

\* reader r is inside ProcessMessages
ReaderActive(r) == reader[r].pc \notin {"idle", "done", "thrown"}

\* a complete frame (positive length, low bit clear) lies at ReadPosition
CompleteFrameAtRead ==
    LET length == Buffer[OffsetOf(Sync.ReadPosition)] IN
    length > 0 /\ LowBit(length) = 0

\* writer w is outside SendMessage
WriterStopped(w) == writer[w].pc \in {"idle", "terminated", "terminate_wait"}

\* writer w loops in AcquireRegionForWrite: no space for its frame, and
\* AdvanceFreePosition cannot reclaim any until a reader processes a frame
WriterWaitsForSpace(w) ==
    /\ writer[w].pc \in {"acquire_load_free", "acquire_load_write",
                         "acquire_check_terminate", "free_load_free",
                         "free_load_read", "free_load_length"}
    /\ ~ Sync.TerminateChannel
    /\ ~ HasFreeSpace(Sync.WritePosition, Sync.FreePosition, writer[w].frameLength)
    /\ \/ Sync.FreePosition = Sync.ReadPosition
       \/ Buffer[OffsetOf(Sync.FreePosition)] >= 0

\* C6: once the writers have stopped with frames left in the ring, a reader
\* inside ProcessMessages can still run until ReadPosition = WritePosition: the
\* readers are never all asleep with nothing left to wake them.
C6_ReadersDrain ==
    ~ /\ \A w \in Writers : WriterStopped(w)
      /\ Sync.ReadPosition # Sync.WritePosition
      /\ CompleteFrameAtRead
      /\ \E r \in Readers : ReaderActive(r)
      /\ \A r \in Readers : ReaderActive(r) => ReaderBlocked(r)

\* ---- restart
\* the run was interrupted and InitializeChannel has returned
Restarted == crashed # <<>> /\ main.pc = "running"

AtCrash == crashed[1]

\* message frames published before the crash and not dispatched before it
WrittenBeforeCrash ==
    {i \in DOMAIN AtCrash.reservations :
        /\ AtCrash.reservations[i].written
        /\ ~ AtCrash.reservations[i].link
        /\ \A k \in DOMAIN AtCrash.dispatches :
              AtCrash.dispatches[k].position # AtCrash.reservations[i].position}

\* frames reserved before the crash whose Length was not yet published
PartialAtCrash ==
    {i \in DOMAIN AtCrash.reservations : ~ AtCrash.reservations[i].written}

\* dispatches before the crash whose reader had stored the negated length
ProcessedBeforeCrash ==
    {k \in DOMAIN AtCrash.dispatches :
        LET d == AtCrash.dispatches[k]
            me == AtCrash.reader[d.reader]
        IN  ~ /\ me.pc \in {"dispatch_clear", "dispatch_signal_cleanup"}
              /\ me.readPosition = d.position}

\* dispatches after the restart
LaterDispatches == {k \in DOMAIN dispatches : k > Len(AtCrash.dispatches)}

\* the walk of InitializeChannel stands at a frame whose length word moves it
\* nowhere
InitWalkStuck ==
    /\ main.pc = "init_walk"
    /\ main.freePosition # main.writePosition
    /\ LET length == Buffer[OffsetOf(main.freePosition)] IN
       (IF NeedsRecovery(length) THEN RecoveredLength(length) ELSE length) = 0

\* C7: after a crash at any point, InitializeChannel returns, and the reader
\* then dispatches every frame that was fully written and not dispatched
\* exactly once, no partially written frame, and no frame that was already
\* marked processed.
C7_Recovery ==
    /\ ~ fault
    /\ ~ InitWalkStuck
    /\ Restarted =>
          /\ \A i \in WrittenBeforeCrash : Cardinality(DispatchesOf(i)) <= 1
          /\ Settled => \A i \in WrittenBeforeCrash : Cardinality(DispatchesOf(i)) = 1
          /\ \A i \in PartialAtCrash : DispatchesOf(i) = {}
          /\ \A k \in ProcessedBeforeCrash : \A j \in LaterDispatches :
                dispatches[j].position # dispatches[k].position

\* C8: no state has a complete frame at ReadPosition while every reader is
\* blocked in the wait primitive, no post is pending, and no sender is going
\* to post (each is outside SendMessage or waits for space only a reader can
\* free).
C8_NoMissedWakeup ==
    ~ /\ CompleteFrameAtRead
      /\ \E r \in Readers : ReaderBlocked(r)
      /\ \A r \in Readers : ReaderActive(r) => ReaderBlocked(r)
      /\ semaphore = 0
      /\ \A w \in Writers : WriterStopped(w) \/ WriterWaitsForSpace(w)

\* C9: TerminateFeedbackChannel returns: while it waits for ActiveReaderCount
\* to reach 0 some reader can still run.  (It returns only at a load of 0, by
\* the guard of TerminateWait.)
C9_TerminateReturns ==
    \A w \in Writers :
        writer[w].pc = "terminate_wait" /\ Sync.ActiveReaderCount # 0
            => \E r \in Readers : ReaderActive(r) /\ ~ ReaderBlocked(r)

\* readers that have entered ProcessMessages and not yet left it
ReadersInside ==
    {r \in Readers : reader[r].pc \notin {"idle", "done"}}

\* TerminateFeedbackChannel has set TerminateChannel, sent its message and
\* posted the semaphore, and no other send is in progress
TerminateSignalled ==
    /\ Sync.TerminateChannel
    /\ \A w \in Writers : WriterStopped(w)
    /\ \E w \in Writers : writer[w].pc = "terminate_wait"

\* C10: on a terminated channel whose blocked reader has been signalled, no
\* reader stays in WaitForFrame asleep with no post pending, and
\* ProcessMessages leaves ActiveReaderCount at the number of readers inside.
C10_TerminatedReadReturns ==
    /\ TerminateSignalled => \A r \in Readers : ~ ReaderBlocked(r)
    /\ Sync.ActiveReaderCount = Cardinality(ReadersInside)

\* ---- sends on a terminated channel
\* writer w has left SendMessage (and the Terminate* call around it, if any)
SendReturned(w) ==
    writer'[w].pc \in {"idle", "terminate_notify", "terminated"}

\* message frames (not link frames) reserved for message msgId
MessageReservations(rs, msgId) ==
    {i \in DOMAIN rs : rs[i].msgId = msgId /\ ~ rs[i].link}

\* C11 as stated: the send that follows the setting of TerminateChannel (the
\* send of the terminate message inside Terminate*Channel) never advances
\* WritePosition and never writes into the buffer.
C11_SendDropped ==
    [][\A w \in Writers :
          writer[w].call # "send" =>
              \/ writer'[w] = writer[w]
              \/ Sync'.WritePosition = Sync.WritePosition /\ Buffer' = Buffer]_vars

\* C11 amended: a send that finds no space on a terminated channel returns at
\* once; that step changes neither the positions, the buffer nor the
\* semaphore, and the abandoned send has reserved no message frame.
C11_NoSpaceSendDropped ==
    [][\A w \in Writers :
          /\ writer[w].pc = "acquire_check_terminate"
          /\ writer'[w] # writer[w]
          /\ Sync.TerminateChannel
          => /\ SendReturned(w)
             /\ Sync' = Sync /\ Buffer' = Buffer /\ semaphore' = semaphore
             /\ MessageReservations(reservations', writer[w].msgId) = {}]_vars

\* TerminateControlChannel has returned and its message was dropped
C11_Witness ==
    /\ Sync.TerminateChannel
    /\ writer[2].pc = "terminated"
    /\ \A i \in DOMAIN reservations : reservations[i].writer # 2

\* ---- positions past 2^32
\* The channel after (2^32 - Size) bytes of frames of Size / 2 bytes, all of
\* them dispatched: the three positions stand one buffer length below 2^32,
\* and each frame of the last pass has left its negated length behind (the
\* reader clears everything after the Length word).
WrapStart == PosMod - NumWords

StaleLength == 0 - (Size \div 2)

InitWrap ==
    /\ Sync = [InitSync EXCEPT !.WritePosition = WrapStart,
                               !.ReadPosition = WrapStart,
                               !.FreePosition = WrapStart]
    /\ Buffer = [i \in 0 .. NumWords - 1 |->
                    IF i % (NumWords \div 2) = 0 THEN StaleLength ELSE 0]
    /\ semaphore = 0
    /\ policy = "interprocess"
    /\ writer = [w \in Writers |-> WriterIdle]
    /\ reader = [r \in Readers |-> ReaderIdle]
    /\ main = MainIdle
    /\ fault = FALSE
    /\ sendCount = 0
    /\ reservations = <<>>
    /\ claims = <<>>
    /\ dispatches = <<>>
    /\ crashed = <<>>
    /\ InitDictionary
    /\ InitPlatform

SpecWrap == InitWrap /\ [][NextMargin]_vars

\* the position as a counter that never overflows (in words): WrapStart plus
\* the distance travelled since
Ideal(position) == WrapStart + PosDiff(position, WrapStart)

\* the free-space test on counters that never overflow (in words)
IdealHasFreeSpace(writePosition, freePosition, frameLength) ==
    Ideal(writePosition) - Ideal(freePosition) < InWords(Margin - frameLength)

\* the margin extension on counters that never overflow
IdealFrameLengthAdj(writePosition, frameLength) ==
    LET nextWriteOffset ==
            ((Ideal(writePosition) + InWords(frameLength)) % NumWords) * WordSize
    IN  IF nextWriteOffset >= Margin THEN Size - nextWriteOffset ELSE 0

\* the reservations of message frames, in order of reservation
RECURSIVE MessagesIn(_)
MessagesIn(rs) ==
    IF rs = <<>> THEN <<>>
    ELSE IF Head(rs).link THEN MessagesIn(Tail(rs))
    ELSE <<Head(rs)>> \o MessagesIn(Tail(rs))

\* C12: with positions that overflow 2^32 the offsets, the free-space test and
\* the filler/margin decisions are those of counters that never overflow, and
\* the messages are delivered in the order sent with the payload written.
C12_WrapSafe ==
    /\ \A i \in DOMAIN reservations :
          LET r == reservations[i] IN
          /\ OffsetOf(r.position) = Ideal(r.position) % NumWords
          /\ Ideal(r.position) =
                IF i = 1 THEN WrapStart
                ELSE Ideal(reservations[i - 1].position)
                         + InWords(reservations[i - 1].frameLength)
          /\ r.frameLength - r.expected = IdealFrameLengthAdj(r.position, r.expected)
          /\ r.link <=> (Ideal(r.position) % NumWords) * WordSize + r.frameLength > Size
    /\ \A w \in Writers :
          /\ writer[w].pc = "acquire_cas" =>
                IdealHasFreeSpace(writer[w].writePosition, writer[w].freePosition,
                                  writer[w].frameLength)
          /\ writer[w].pc = "acquire_check_terminate" =>
                ~ IdealHasFreeSpace(writer[w].writePosition, writer[w].freePosition,
                                    writer[w].frameLength)
    /\ Ideal(Sync.FreePosition) <= Ideal(Sync.ReadPosition)
    /\ Ideal(Sync.ReadPosition) <= Ideal(Sync.WritePosition)
    /\ Len(dispatches) <= Len(MessagesIn(reservations))
    /\ \A k \in DOMAIN dispatches :
          LET r == MessagesIn(reservations)[k] IN
          /\ dispatches[k].position = r.position
          /\ dispatches[k].payload =
                [j \in 1 .. PayloadWords(r.frameLength) |->
                    IF j <= PayloadWords(r.expected) THEN PayloadWord(r.msgId) ELSE 0]

\* a message reserved after WritePosition overflowed has been dispatched
C12_Witness ==
    \E k \in DOMAIN dispatches :
        /\ dispatches[k].position < WrapStart
        /\ Sync.WritePosition < WrapStart

\* ---- reclaiming a drained channel
\* FreePosition after one whole call of AdvanceFreePosition that starts with
\* local freePosition and runs with no other thread taking a step: follow the
\* negative lengths until ReadPosition or a Length >= 0.
RECURSIVE AdvanceFreeFrom(_, _)
AdvanceFreeFrom(freePosition, frames) ==
    LET length == Buffer[OffsetOf(freePosition)] IN
    IF freePosition = Sync.ReadPosition \/ frames = 0 THEN freePosition
    ELSE IF length >= 0 \/ Misaligned(length) THEN freePosition
    ELSE AdvanceFreeFrom(NextFreePosition(freePosition, length), frames - 1)

\* the channel is drained: no send in progress, no frame held by a reader,
\* ReadPosition = WritePosition, and no InitializeChannel under way
Drained == Settled /\ main = MainIdle

\* C13: once every reserved frame has been dispatched or skipped and marked
\* for cleanup and no thread is inside a send or holds a frame, one call of
\* AdvanceFreePosition moves FreePosition to ReadPosition = WritePosition.
C13_AdvanceReachesRead ==
    Drained =>
        AdvanceFreeFrom(Sync.FreePosition, NumWords) = Sync.ReadPosition

\* ---- link frames
\* byte offset of the end of reservation r, counted from the buffer start
EndOffset(r) == OffsetOf(r.position) * WordSize + r.frameLength

Claimed(r) == \E k \in DOMAIN claims : claims[k].position = r.position

CorruptSizes == {8, 28}

NextCorrupt ==
    \/ \E n \in CorruptSizes, kind \in MessageKinds :
          sendCount < PairSends /\ SendMessageOf(1, n, kind)
    \/ WriterStep(1)
    \/ ProcessMessages(1)
    \/ ReaderStep(1)

SpecCorrupt == Init /\ [][NextCorrupt]_vars

\* the frame the reader holds has its payload cleared
PayloadCleared(me) ==
    \A k \in 1 .. InWords(me.frameLength) - 1 : Buffer[me.readOffset + k] = 0

\* reader r finishes an invalid frame: the payload is cleared, Length becomes
\* -frameLength, no handler ran for the frame, and the reader is back at the
\* top of WaitForFrame
InvalidFrameDropped(r) ==
    /\ reader[r].pc = "dispatch_signal_cleanup"
    /\ reader[r].invalid
    /\ reader'[r] # reader[r]
    => /\ PayloadCleared(reader[r])
       /\ Buffer'[reader[r].readOffset] = - reader[r].frameLength
       /\ \A k \in DOMAIN dispatches' :
             dispatches'[k].position # reader[r].readPosition
       /\ reader'[r] = ReaderWaiting

ValidKinds == {"valid", "string"}

InvalidKinds == MessageKinds \ ValidKinds

\* message frames of the given kinds
FramesOfKind(kinds) ==
    {i \in MessageFrames : reservations[i].kind \in kinds}

\* C15: under the inter-process policy a frame whose type index is beyond the
\* dispatch table, whose hash differs from the table entry or whose handler
\* returns false is cleared and marked for cleanup without a dispatch, the
\* reader never stops on it, and it dispatches the valid frames that follow.
C15_InvalidFrameDropped ==
    /\ [][\A r \in Readers : InvalidFrameDropped(r)]_vars
    /\ [](\A r \in Readers :
             /\ reader[r].pc # "thrown"
             /\ reader[r].pc \in {"dispatch_clear", "dispatch_signal_cleanup"} =>
                   (reader[r].invalid <=>
                       \E i \in FramesOfKind(InvalidKinds) :
                           reservations[i].position = reader[r].readPosition))
    /\ [](Settled =>
             /\ \A i \in FramesOfKind(ValidKinds) : Cardinality(DispatchesOf(i)) = 1
             /\ \A i \in FramesOfKind(InvalidKinds) : DispatchesOf(i) = {})

\* all frames are consumed, and a valid message sent after an invalid one
\* has been dispatched
C15_Witness ==
    /\ Settled
    /\ \E j \in FramesOfKind({"valid", "string"}) :
          /\ DispatchesOf(j) # {}
          /\ \E i \in FramesOfKind({"index", "hash", "data"}) : i < j

\* ============================================ SHARED CONFIG DICTIONARY ==
\* One caller creates and looks up shared configs through both entry points;
\* the channel stays as constructed.
\* the region of a SharedConfigDictionary or the SharedConfigMemoryRegion of a
\* SharedConfigManager, with the array of slots allocated
InitSharedConfig ==
    /\ InitChannelWith("interprocess")
    /\ InitPlatform
    /\ memoryRegion \in {[InitializeSharedConfigDictionary EXCEPT !.Owner = api] :
                            api \in Apis}
    /\ componentConfig = ComponentIdle
    /\ otherConfig = ComponentIdle
    /\ configHistory = <<>>

SpecDictionary == InitSharedConfig /\ [][NextDictionary]_vars

\* the offsets the slots hold for the config (type, key)
OffsetsOf(region, type, key) ==
    {region.Slots[i] : i \in SlotsOf(region, type, key)}

\* the step with which the probing call returns
ProbeReturns == componentConfig.pc = "probe" /\ componentConfig'.pc = "idle"

\* a CreateOrUpdateFrom call for a key the dictionary held when the call began
UpdatingExisting ==
    /\ componentConfig.pc = "probe"
    /\ componentConfig.op = "create"
    /\ componentConfig.existed

\* C16: CreateOrUpdateFrom with a key that is already in the dictionary binds
\* the caller to the existing shared config and overwrites the caller's local
\* copy with the stored value; it never reaches the allocation and no step of
\* it changes the slots, the stored configs or the allocator.
C16_ExistingKeyBinds ==
    [][UpdatingExisting =>
          /\ memoryRegion' = memoryRegion
          /\ componentConfig'.pc \in {"probe", "idle"}
          /\ ProbeReturns =>
                /\ componentConfig'.result = "S_OK"
                /\ componentConfig'.sharedConfig
                       \in OffsetsOf(memoryRegion, componentConfig.type,
                                     componentConfig.key)
                /\ componentConfig'.value =
                       memoryRegion.Configs[componentConfig'.sharedConfig].Value
                /\ \E created \in {configHistory[i] : i \in DOMAIN configHistory} :
                       /\ created.offset = componentConfig'.sharedConfig
                       /\ created.value = componentConfig'.value]_vars

\* a CreateOrUpdateFrom call returned the existing shared config, which it
\* found after probing past another config, while a third config was stored
C16_Witness ==
    /\ componentConfig.pc = "idle"
    /\ componentConfig.op = "create"
    /\ componentConfig.existed
    /\ componentConfig.result = "S_OK"
    /\ componentConfig.probingCount > 1
    /\ Len(configHistory) > 1
    /\ \E i \in DOMAIN configHistory :
          /\ configHistory[i].offset = componentConfig.sharedConfig
          /\ configHistory[i].value = componentConfig.value

\* the shared configs created for (type, key) by the calls that returned
CreatedFor(type, key) ==
    {configHistory[i].offset :
        i \in {j \in DOMAIN configHistory :
                  /\ configHistory[j].type = type
                  /\ configHistory[j].key = key}}

LookingUp == componentConfig.pc = "probe" /\ componentConfig.op = "lookup"

ManagerCreated(offset) ==
    \/ /\ componentConfig.allocatedOffset = offset
       /\ componentConfig.api = "manager"
    \/ \E i \in DOMAIN configHistory :
          /\ configHistory[i].offset = offset
          /\ configHistory[i].api = "manager"

\* the header fields the creating call writes and the serialized config are
\* all in place
Initialised(offset) ==
    LET sharedConfig == memoryRegion.Configs[offset] IN
    /\ sharedConfig.ConfigId = 1
    /\ sharedConfig.CodegenTypeIndex \in Types
    /\ sharedConfig.Key \in Keys
    /\ sharedConfig.Value \in ConfigValues
    /\ ManagerCreated(offset) => sharedConfig.Address = offset

\* C18: in CreateOrUpdateFrom on an empty slot, the offset is stored into the
\* slot only after the shared config is allocated, its header written and the
\* config serialized: in every state, every non-empty slot refers to a
\* completely initialised shared config.
C18_SlotsInitialised ==
    \A i \in DOMAIN memoryRegion.Slots :
        memoryRegion.Slots[i] # 0 => Initialised(memoryRegion.Slots[i])

\* the type index and the whole serialized config are in place
Serialized(sharedConfig) ==
    /\ sharedConfig.CodegenTypeIndex \in Types
    /\ sharedConfig.Key \in Keys
    /\ sharedConfig.Value \in ConfigValues

\* the offsets held by the non-empty slots
Published ==
    {memoryRegion.Slots[i] : i \in DOMAIN memoryRegion.Slots} \ {0}

\* C19 as stated: ConfigId is the last field written, so that a shared config
\* whose ConfigId is not 0 has its type index and its complete serialized
\* config.
C19_ConfigIdLast ==
    \A offset \in ConfigOffsets :
        memoryRegion.Configs[offset].ConfigId # 0
            => Serialized(memoryRegion.Configs[offset])

\* C19, amended: ConfigId is the first field written (the store turns an
\* all-zero shared config into one with ConfigId = 1 and nothing else, and
\* ConfigId never changes afterwards); the shared config is published by the
\* store of its offset into the slot, so a shared config reached through a
\* non-empty slot has ConfigId = 1, its type index and its complete config.
C19_PublishedBySlot ==
    /\ [][\A offset \in ConfigOffsets :
             LET before == memoryRegion.Configs[offset]
                 after == memoryRegion'.Configs[offset]
             IN  /\ before.ConfigId # after.ConfigId
                     => /\ before = ZeroConfig
                        /\ after = [ZeroConfig EXCEPT !.ConfigId = 1]
                 /\ before # after /\ before.ConfigId = after.ConfigId
                     => before.ConfigId = 1]_vars
    /\ [](\A offset \in Published :
             /\ memoryRegion.Configs[offset].ConfigId = 1
             /\ Serialized(memoryRegion.Configs[offset]))

\* a shared config under creation has its ConfigId and type index but not its
\* whole config and is in no slot, while another shared config is published
C19_Witness ==
    /\ Published # {}
    /\ \E offset \in ConfigOffsets \ Published :
          /\ memoryRegion.Configs[offset].ConfigId = 1
          /\ memoryRegion.Configs[offset].Key \in Keys
          /\ memoryRegion.Configs[offset].Value = 0
          /\ componentConfig.allocatedOffset = offset
          /\ componentConfig.pc = "serialize_value"

\* ====================================================== ARENA ALLOCATOR ==
\* AllocateInMemoryRegion called directly on regions of several sizes.

\* MemoryRegionSize of the regions and the firstAllocationOffset handed to
\* InitializeArenaAllocator
ArenaRegionSizes ==
    {MemoryRegionSize, MemoryRegionSize + 2 * AllocationAlignment,
     2 * MemoryRegionSize}

FirstAllocationOffsets ==
    {3 * AllocationEntrySize, FirstAllocationAlignment + WordSize}

\* the size argument of AllocateInMemoryRegion
AllocationSizes ==
    {AllocationEntrySize, AllocationAlignment - AllocationEntrySize,
     2 * AllocationAlignment - 2 * AllocationEntrySize}

InitArena ==
    /\ InitChannelWith("interprocess")
    /\ InitPlatform
    /\ memoryRegion \in {EmptyRegion(regionSize, firstAllocationOffset) :
                            regionSize \in ArenaRegionSizes,
                            firstAllocationOffset \in FirstAllocationOffsets}
    /\ componentConfig = ComponentIdle
    /\ otherConfig = ComponentIdle
    /\ configHistory = <<>>

\* one call of AllocateInMemoryRegion(allocator, size, offset)
Allocate(size) ==
    /\ ComponentAt("idle")
    /\ IF AllocationFails(memoryRegion.Allocator, size)
       THEN /\ componentConfig' =
                   [ComponentIdle EXCEPT !.op = "allocate", !.size = size,
                                         !.result = "E_OUTOFMEMORY"]
            /\ UNCHANGED memoryRegion
       ELSE /\ memoryRegion' = AllocateInMemoryRegion(memoryRegion, size)
            /\ componentConfig' =
                   [ComponentIdle EXCEPT
                       !.op = "allocate", !.size = size, !.result = "S_OK",
                       !.allocatedOffset =
                           memoryRegion.Allocator.FreeOffset + AllocationEntrySize]
    /\ UNCHANGED <<configHistory, channelVars, platformVars, otherConfig>>

NextArena == \E size \in AllocationSizes : Allocate(size)

SpecArena == InitArena /\ [][NextArena]_vars

\* size plus the AllocationEntry header, rounded up to 64 bytes
RoundedSize(size) == align(AllocationAlignment, size + AllocationEntrySize)

\* the end of the allocation block
BlockEnd(allocator) ==
    allocator.FirstAllocationOffset + allocator.AllocationBlockSize

\* C20: AllocateInMemoryRegion(size) fails with E_OUTOFMEMORY exactly when
\* FreeOffset plus the rounded size is greater than the end of the block; in
\* every other case, an exact fit included, it succeeds; a failed call leaves
\* FreeOffset, AllocationCount and the chain of entries unchanged.
C20_OutOfMemoryExactly ==
    [][LET allocator == memoryRegion.Allocator
           size == componentConfig'.size
       IN  componentConfig'.op = "allocate" =>
             /\ componentConfig'.result = "E_OUTOFMEMORY"
                   <=> allocator.FreeOffset + RoundedSize(size)
                          > BlockEnd(allocator)
             /\ componentConfig'.result = "E_OUTOFMEMORY"
                   => memoryRegion' = memoryRegion]_vars

\* ===================================================== INTERPROCESS CONTEXT ==
\* InterProcessMlosContext::Create and the destructor, by several processes,
\* over the objects linked under the context's shared memory names.

MaxRegistrations == 3

\* the type index of RegisteredSettingsAssemblyConfig and the payload size of
\* RegisterAssemblyRequestMessage (one uint32_t, AssemblyIndex)
RegisteredSettingsAssemblyType == 2
RegisterAssemblyRequestSize == 4

\* the thread of the context that registers assemblies, as a channel writer
ContextWriter == 1

EventsOf(kind) == SelectSeq(contextHistory, LAMBDA e : e.event = kind)

\* Variant of SharedMemoryMapView::CreateOrOpen as the Windows build has it:
\* OpenExisting succeeded, return S_FALSE.
MapViewOpenExisting(existed) == IF existed THEN "S_FALSE" ELSE "S_OK"

\* SharedMemoryMapView::CreateOrOpen (Linux): shm_open(O_CREAT | O_RDWR), then
\* return MapMemoryView(memSize), which is S_OK when ftruncate and mmap succeed
MapViewCreateOrOpen(existed) == "S_OK"

\* InitializeMemoryRegionView and InitializeMemoryRegion of GlobalMemoryRegion:
\* the header, the two counts, the allocator of the embedded dictionary with
\* the array of slots allocated
InitializeMemoryRegionView(region, memSize) ==
    [region EXCEPT
        !.Signature = RegionSignature,
        !.MemoryRegionSize = memSize,
        !.TotalMemoryRegionCount = 1,
        !.RegisteredSettingsAssemblyCount = 1,
        !.Allocator = InitializeSharedConfigDictionary.Allocator]

\* InitializeMemoryRegion of the shared config region over what the object
\* holds: the allocator again, the array of slots allocated again
InitializeSharedConfigRegion(region) ==
    AllocateInMemoryRegion(
        [region EXCEPT
            !.Owner = "manager",
            !.Allocator = InitializeArenaAllocator(MemoryRegionSize,
                                                   FirstAllocationAlignment)],
        ConfigsArraySize)

\* shm_open(O_CREAT): the object linked under the name, a new one of zeros if
\* there is none
OpenShared(shm) ==
    IF shm.Global # 0 THEN shm
    ELSE [shm EXCEPT !.Regions = Append(@, ZeroGlobalMemoryRegion),
                     !.Global = Len(shm.Regions) + 1]

\* the positions of a process between its fetch_add and its fetch_sub
AttachedPcs ==
    {"resources", "attached", "register_lookup", "register_create",
     "register_sending"}

Attached(p) == process[p].pc \in AttachedPcs

\* the global region the process has mapped
GlobalRegion(p) == sharedMemory.Regions[process[p].view]

\* Create: globalMemoryRegionView.CreateOrOpen(GlobalMemoryMapName, size)
CreateGlobalRegion(p) ==
    /\ process[p].pc = "none"
    /\ Len(EventsOf("open")) < MaxAttaches
    /\ LET existed == sharedMemory.Global # 0
           opened == OpenShared(sharedMemory)
           index == opened.Global
           before == opened.Regions[index]
           hr == MapViewCreateOrOpen(existed)
           after == IF hr = "S_FALSE" THEN before
                    ELSE InitializeMemoryRegionView(before, MemoryRegionSize)
       IN  /\ sharedMemory' = [opened EXCEPT !.Regions[index] = after]
           /\ process' = [process EXCEPT ![p] =
                  [ProcessIdle EXCEPT !.pc = "attach", !.view = index, !.hr = hr]]
           /\ contextHistory' =
                  Append(contextHistory,
                         [event |-> "open", process |-> p, existed |-> existed,
                          hr |-> hr, before |-> before, after |-> after])
    /\ UNCHANGED <<channelVars, dictionary, watchVars>>

\* Create: AttachedProcessesCount.fetch_add(1)
AttachProcess(p) ==
    /\ process[p].pc = "attach"
    /\ sharedMemory' = [sharedMemory EXCEPT
           !.Regions[process[p].view].AttachedProcessesCount = @ + 1]
    /\ process' = [process EXCEPT ![p].pc = "resources"]
    /\ UNCHANGED <<channelVars, dictionary, contextHistory, watchVars>>

\* fetch_sub(1) on the mapped region; usageCount == 1 sets CleanupOnClose
Detached(p, hr) ==
    LET usageCount == GlobalRegion(p).AttachedProcessesCount IN
    /\ sharedMemory' = [sharedMemory EXCEPT
           !.Regions[process[p].view].AttachedProcessesCount = @ - 1]
    /\ process' = [process EXCEPT ![p].pc = "close", ![p].hr = hr,
                                  ![p].usageCount = usageCount,
                                  ![p].cleanupOnClose = (usageCount = 1)]

\* Create: the channel maps, the events and the shared config region are
\* created or opened; when one of them fails the process detaches
CreateResources(p, succeeded) ==
    /\ process[p].pc = "resources"
    /\ IF succeeded
       THEN /\ sharedMemory' = [sharedMemory EXCEPT !.SharedConfig = TRUE]
            /\ memoryRegion' =
                   IF sharedMemory.SharedConfig
                   THEN InitializeSharedConfigRegion(memoryRegion)
                   ELSE InitializeSharedConfigRegion(
                            EmptyRegion(MemoryRegionSize, FirstAllocationAlignment))
            /\ process' = [process EXCEPT ![p].pc = "attached"]
       ELSE /\ Detached(p, "E_FAIL")
            /\ UNCHANGED memoryRegion
    /\ UNCHANGED <<channelVars, otherConfig, componentConfig, configHistory, contextHistory,
                   watchVars>>

\* ~InterProcessMlosContext: AttachedProcessesCount.fetch_sub(1)
DestroyContext(p) ==
    /\ process[p].pc = "attached"
    /\ Detached(p, "S_OK")
    /\ UNCHANGED <<channelVars, dictionary, contextHistory, watchVars>>

\* the views are closed: munmap, close and, with CleanupOnClose, shm_unlink
CloseViews(p) ==
    /\ process[p].pc = "close"
    /\ IF process[p].cleanupOnClose /\ sharedMemory.Global # 0
       THEN /\ sharedMemory' =
                   [sharedMemory EXCEPT
                       !.Global = 0,
                       !.SharedConfig = IF process[p].hr = "S_OK" THEN FALSE ELSE @]
            /\ contextHistory' =
                   Append(contextHistory,
                          [event |-> "unlink", process |-> p,
                           region |-> sharedMemory.Global,
                           usageCount |-> process[p].usageCount,
                           attached |-> {q \in Processes \ {p} : Attached(q)}])
       ELSE UNCHANGED <<sharedMemory, contextHistory>>
    /\ process' = [process EXCEPT ![p] = ProcessIdle]
    /\ UNCHANGED <<channelVars, dictionary, watchVars>>

\* Variant of the increment that leaves the count as it is.
KeptCount(count) == count

\* ++m_globalMemoryRegion.RegisteredSettingsAssemblyCount
IncrementedCount(count) == count + 1

\* the record of a RegisterSettingsAssembly call that has returned: its
\* assemblyIndex, the count and the number of sends before and after, the
\* shared config it stored and the message it sent
Registered(p, hr, stored) ==
    [event |-> "register", process |-> p, hr |-> hr, stored |-> stored,
     assemblyIndex |-> process[p].assemblyIndex,
     record |-> IF stored THEN memoryRegion.Configs[componentConfig.allocatedOffset]
                ELSE ZeroConfig,
     count |-> GlobalRegion(p).RegisteredSettingsAssemblyCount,
     sendsBefore |-> process[p].sends,
     sendsAfter |-> sendCount,
     message |-> process[p].message]

\* RegisterSettingsAssembly is called: assemblyIndex =
\* RegisteredSettingsAssemblyCount, then m_sharedConfigManager.Lookup
RegisterSettingsAssembly(p) ==
    /\ process[p].pc = "attached"
    /\ process[p].view = sharedMemory.Global
    /\ sharedMemory.SharedConfig
    /\ ComponentAt("idle")
    /\ Len(EventsOf("register")) < MaxRegistrations
    /\ LET assemblyIndex == GlobalRegion(p).RegisteredSettingsAssemblyCount IN
       /\ process' = [process EXCEPT ![p].pc = "register_lookup",
                                     ![p].assemblyIndex = assemblyIndex,
                                     ![p].sends = sendCount,
                                     ![p].message = ProcessIdle.message]
       /\ componentConfig' =
              Called("lookup", "manager", RegisteredSettingsAssemblyType,
                     assemblyIndex, 1)
    /\ UNCHANGED <<channelVars, otherConfig, memoryRegion, configHistory, sharedMemory,
                   contextHistory, watchVars>>

\* Lookup has returned: the config is present, return; otherwise
\* RegisterComponentConfig, which is CreateOrUpdateFrom
RegisterLookedUp(p) ==
    /\ process[p].pc = "register_lookup"
    /\ ComponentAt("idle")
    /\ IF componentConfig.result = "S_OK"
       THEN /\ process' = [process EXCEPT ![p].pc = "attached"]
            /\ contextHistory' =
                   Append(contextHistory, Registered(p, "S_OK", FALSE))
            /\ UNCHANGED componentConfig
       ELSE /\ process' = [process EXCEPT ![p].pc = "register_create"]
            /\ componentConfig' =
                   Called("create", "manager", RegisteredSettingsAssemblyType,
                          process[p].assemblyIndex, 1)
            /\ UNCHANGED contextHistory
    /\ UNCHANGED <<channelVars, otherConfig, memoryRegion, configHistory, sharedMemory,
                   watchVars>>

\* RegisterComponentConfig has returned: on success
\* ++RegisteredSettingsAssemblyCount and m_controlChannel.SendMessage(msg) with
\* msg.AssemblyIndex = assemblyIndex; on failure return hr
RegisterCreated(p) ==
    /\ process[p].pc = "register_create"
    /\ ComponentAt("idle")
    /\ IF componentConfig.result = "S_OK"
       THEN LET frameLength ==
                    align(WordSize, FrameHeaderSize + RegisterAssemblyRequestSize)
            IN  /\ WriterAt(ContextWriter, "idle")
                /\ sendCount < MaxSends
                /\ sharedMemory' = [sharedMemory EXCEPT
                       !.Regions[process[p].view].RegisteredSettingsAssemblyCount
                           = IncrementedCount(@)]
                /\ writer' = [writer EXCEPT ![ContextWriter] =
                       [WriterIdle EXCEPT !.pc = "acquire_load_free",
                                          !.expectedFrameLength = frameLength,
                                          !.frameLength = frameLength,
                                          !.msgId = sendCount + 1]]
                /\ sendCount' = sendCount + 1
                /\ process' = [process EXCEPT
                       ![p].pc = "register_sending",
                       ![p].message =
                           [msgId |-> sendCount + 1,
                            AssemblyIndex |-> process[p].assemblyIndex]]
                /\ UNCHANGED contextHistory
       ELSE /\ process' = [process EXCEPT ![p].pc = "attached"]
            /\ contextHistory' =
                   Append(contextHistory,
                          Registered(p, componentConfig.result, FALSE))
            /\ UNCHANGED <<sharedMemory, writer, sendCount>>
    /\ UNCHANGED <<Sync, Buffer, semaphore, policy, reader, main, fault,
                   reservations, claims, dispatches, crashed,
                   dictionary, watchVars>>

\* SendMessage has returned, RegisterSettingsAssembly returns hr
RegisterReturn(p) ==
    /\ process[p].pc = "register_sending"
    /\ writer[ContextWriter].pc = "idle"
    /\ process' = [process EXCEPT ![p].pc = "attached"]
    /\ contextHistory' = Append(contextHistory, Registered(p, "S_OK", TRUE))
    /\ UNCHANGED <<channelVars, dictionary, sharedMemory, watchVars>>

\* the steps of the calls into the shared config manager
ManagerStep ==
    \/ ProbeSlot
    \/ AllocateSharedConfig
    \/ InitConfigId
    \/ InitTypeIndex
    \/ SerializeKey
    \/ SerializeValue
    \/ BindSharedConfig
    \/ StoreSlot
    \/ StoreAddress

\* SendMessage where the frame does not wrap and finds space at once
SendStep(w) ==
    \/ AcquireLoadFree(w)
    \/ AcquireLoadWrite(w)
    \/ AcquireCheckTerminate(w)
    \/ AcquireCas(w)
    \/ SendStoreIncomplete(w)
    \/ SendStoreBody(w)
    \/ SendSignalReady(w)
    \/ SendCheckWaiters(w)

\* SendMessage where the frame does not wrap
SendOrWaitStep(w) ==
    \/ SendStep(w)
    \/ SendNotify(w)
    \/ FreeLoadFree(w)
    \/ FreeLoadRead(w)
    \/ FreeLoadLength(w)
    \/ FreeCas(w)

\* processes Ps create and destroy contexts
Attaching(Ps) ==
    \/ \E p \in Ps : CreateGlobalRegion(p)
    \/ \E p \in Ps : AttachProcess(p)
    \/ \E p \in Ps, succeeded \in BOOLEAN : CreateResources(p, succeeded)
    \/ \E p \in Ps : DestroyContext(p)
    \/ \E p \in Ps : CloseViews(p)

\* the context of process 1 registers settings assemblies
Registering ==
    \/ RegisterSettingsAssembly(1)
    \/ RegisterLookedUp(1)
    \/ RegisterCreated(1)
    \/ RegisterReturn(1)
    \/ ManagerStep

\* SpecAttach: all processes; nobody reads the control channel, whose buffer
\* has room for the register messages
NextAttach ==
    \/ Attaching(Processes)
    \/ Registering
    \/ SendStep(ContextWriter)

SpecAttach == Init /\ [][NextAttach]_vars

\* SpecRegister: one process, and a reader of the control channel; the frames
\* of the register messages fill the buffer exactly, none of them wraps
NextRegister ==
    \/ Attaching({1})
    \/ Registering
    \/ SendOrWaitStep(ContextWriter)
    \/ ProcessMessages(1)
    \/ ReaderStep(1)

SpecRegister == Init /\ [][NextRegister]_vars

\* the CreateOrOpen calls that found an object linked under the name
Reopened == SelectSeq(EventsOf("open"), LAMBDA e : e.existed)

\* C21: a region is initialised only by the CreateOrOpen call that created
\* the mapping: a later CreateOrOpen of an existing region reports it as
\* opened (S_FALSE) and leaves every byte of the region unchanged.
C21_OpenLeavesRegion ==
    \A i \in DOMAIN Reopened :
        /\ Reopened[i].hr = "S_FALSE"
        /\ Reopened[i].after = Reopened[i].before

\* C22: the shared regions survive until AttachedProcessesCount reaches zero:
\* only the process whose fetch_sub takes the count from 1 to 0 unlinks, and
\* nothing is unlinked while another process is attached.
C22_UnlinkByLast ==
    \A i \in DOMAIN EventsOf("unlink") :
        /\ EventsOf("unlink")[i].usageCount = 1
        /\ EventsOf("unlink")[i].attached = {}

\* =============================================================== FILE WATCH ==
\* FileWatchEvent::Wait and AnonymousMemoryMlosContext::HandleFdRequests: a
\* thread waits on inotify for the watch file to be opened; the other side
\* (the agent, the test's modifier thread) opens and removes the file.
\* fileSystem.File is the inode of the watch file (0: no file), Watch the inode
\* the inotify instance watches (0: no watch), Queue its unread events.
\* watcher.deleted: this call has seen IN_DELETE_SELF; watcher.pendingOpen:
\* the other side has opened the file after that, during this call.

MaxInodes == 3
MaxOpens == 2
MaxWaits == 2

WatchEvents(kind) == SelectSeq(watchHistory, LAMBDA e : e.event = kind)

\* creat(path) and close: a new file when there is none; creat opens the
\* file, which a watch on it reports
CreateWatchFile(fs) ==
    IF fs.File = 0
    THEN [fs EXCEPT !.File = fs.Inodes + 1, !.Inodes = @ + 1]
    ELSE IF fs.Watch = fs.File
         THEN [fs EXCEPT !.Queue = Append(@, "IN_OPEN")]
         ELSE fs

\* inotify_rm_watch: the watch, when there is one, is removed and IN_IGNORED
\* is queued
RemoveWatch(fs) ==
    IF fs.Watch = 0 THEN fs
    ELSE [fs EXCEPT !.Watch = 0, !.Queue = Append(@, "IN_IGNORED")]

\* the loop over the events of one read: (waitForSocket, fdWatch) after it
RECURSIVE ScanEvents(_, _)
ScanEvents(events, fdWatch) ==
    IF events = <<>> THEN <<TRUE, fdWatch>>
    ELSE IF Head(events) = "IN_OPEN" THEN <<FALSE, fdWatch>>
    ELSE IF Head(events) = "IN_DELETE_SELF" THEN ScanEvents(Tail(events), 0)
    ELSE ScanEvents(Tail(events), fdWatch)

\* Variant of the loop that takes the removal of the file for its opening.
RECURSIVE ScanAnyEvent(_, _)
ScanAnyEvent(events, fdWatch) ==
    IF events = <<>> THEN <<TRUE, fdWatch>>
    ELSE IF Head(events) \in {"IN_OPEN", "IN_DELETE_SELF"} THEN <<FALSE, fdWatch>>
    ELSE ScanAnyEvent(Tail(events), fdWatch)

WatcherAt(label) == watcher.pc = label

WatcherIn(call) == watcher.call = call /\ watcher.pc \notin {"idle", "returned", "terminated"}

\* the other side opens the watch file (and closes it)
OpenWatchFile ==
    /\ fileSystem.File # 0
    /\ Len(WatchEvents("open")) < MaxOpens
    /\ fileSystem' =
           IF fileSystem.Watch = fileSystem.File
           THEN [fileSystem EXCEPT !.Queue = Append(@, "IN_OPEN")]
           ELSE fileSystem
    /\ watcher' = [watcher EXCEPT !.pendingOpen =
                      @ \/ (WatcherIn("Wait") /\ watcher.deleted)]
    /\ watchHistory' =
           Append(watchHistory,
                  [event |-> "open", hr |-> "S_OK",
                   armed |-> fileSystem.Watch = fileSystem.File])
    /\ UNCHANGED <<channelVars, dictionary, contextVars>>

\* the other side removes the watch file: a watch on it ends with
\* IN_DELETE_SELF and IN_IGNORED
RemoveWatchFile ==
    /\ fileSystem.File # 0
    /\ fileSystem.Inodes < MaxInodes
    /\ fileSystem' =
           IF fileSystem.Watch = fileSystem.File
           THEN [fileSystem EXCEPT
                    !.File = 0, !.Watch = 0,
                    !.Queue = @ \o <<"IN_DELETE_SELF", "IN_IGNORED">>]
           ELSE [fileSystem EXCEPT !.File = 0]
    /\ UNCHANGED <<channelVars, dictionary, contextVars, watcher, watchHistory>>

\* the agent listens on the socket, or stops listening
AgentListens(listening) ==
    /\ fileSystem.Socket # listening
    /\ fileSystem' = [fileSystem EXCEPT !.Socket = listening]
    /\ UNCHANGED <<channelVars, dictionary, contextVars, watcher, watchHistory>>

\* FileWatchEvent::Wait is called: CreateWatchFile, fdWatch = INVALID_FD_VALUE,
\* waitForSocket = true
Wait ==
    /\ WatcherAt("idle") \/ (WatcherAt("returned") /\ watcher.call = "Wait")
    /\ Len(WatchEvents("wait")) < MaxWaits
    /\ fileSystem' = CreateWatchFile(fileSystem)
    /\ watcher' = [WatcherIdle EXCEPT !.pc = "create_file", !.call = "Wait"]
    /\ watchHistory' = Append(watchHistory, [event |-> "wait", hr |-> "S_OK"])
    /\ UNCHANGED <<channelVars, dictionary, contextVars>>

\* while (waitForSocket), fdWatch == INVALID_FD_VALUE: CreateWatchFile
WatchCreateFile ==
    /\ WatcherAt("create_file")
    /\ fileSystem' = CreateWatchFile(fileSystem)
    /\ watcher' = [watcher EXCEPT !.pc = "add_watch"]
    /\ UNCHANGED <<channelVars, dictionary, contextVars, watchHistory>>

\* fdWatch = inotify_add_watch(fdNotify, path, IN_OPEN | IN_DELETE_SELF);
\* it fails with ENOENT when the file is gone, and the loop is left
WatchAdd ==
    /\ WatcherAt("add_watch")
    /\ IF fileSystem.File = 0
       THEN /\ watcher' = [watcher EXCEPT !.pc = "leave", !.hr = "ENOENT"]
            /\ UNCHANGED fileSystem
       ELSE /\ fileSystem' = [fileSystem EXCEPT !.Watch = fileSystem.File]
            /\ watcher' = [watcher EXCEPT !.pc = "read",
                                          !.fdWatch = fileSystem.File]
    /\ UNCHANGED <<channelVars, dictionary, contextVars, watchHistory>>

\* length = read(fdNotify, eventsBuffer, size): blocks until an event is queued
WatchRead ==
    /\ WatcherAt("read")
    /\ fileSystem.Queue # <<>>
    /\ fileSystem' = [fileSystem EXCEPT !.Queue = <<>>]
    /\ watcher' = [watcher EXCEPT !.pc = "events", !.events = fileSystem.Queue]
    /\ UNCHANGED <<channelVars, dictionary, contextVars, watchHistory>>

\* while (waitForSocket && i < length): IN_OPEN ends the wait, IN_DELETE_SELF
\* invalidates fdWatch (inotify_rm_watch of the ended watch does nothing);
\* then the test of while (waitForSocket)
WatchEventsScanned ==
    /\ WatcherAt("events")
    /\ LET scanned == ScanEvents(watcher.events, watcher.fdWatch) IN
       watcher' = [watcher EXCEPT
                      !.waitForSocket = scanned[1],
                      !.fdWatch = scanned[2],
                      !.events = <<>>,
                      !.deleted = @ \/ (scanned[2] # watcher.fdWatch),
                      !.pc = IF ~ scanned[1] THEN "leave"
                             ELSE IF scanned[2] = 0 THEN "create_file"
                             ELSE "read"]
    /\ UNCHANGED <<channelVars, dictionary, contextVars, fileSystem, watchHistory>>

\* Wait, after the loop: inotify_rm_watch on success; return hr
WaitReturn ==
    /\ WatcherAt("leave")
    /\ watcher.call = "Wait"
    /\ fileSystem' = IF watcher.hr = "S_OK" THEN RemoveWatch(fileSystem)
                     ELSE fileSystem
    /\ watcher' = [watcher EXCEPT !.pc = "returned", !.pendingOpen = FALSE]
    /\ watchHistory' =
           Append(watchHistory, [event |-> "return", hr |-> watcher.hr])
    /\ UNCHANGED <<channelVars, dictionary, contextVars>>

WaitStep ==
    \/ WatchCreateFile
    \/ WatchAdd
    \/ WatchRead
    \/ WatchEventsScanned
    \/ WaitReturn

\* SpecWatch: one thread calls Wait, the other side opens and removes the file
NextWatch ==
    \/ Wait
    \/ WaitStep
    \/ OpenWatchFile
    \/ RemoveWatchFile

SpecWatch == Init /\ [][NextWatch]_vars

\* the waiting thread is scheduled
FairSpecWatch == SpecWatch /\ WF_vars(WaitStep)

\* Wait has returned S_OK only after the other side had opened the file
ReturnsAfterOpen ==
    \A i \in DOMAIN watchHistory :
        watchHistory[i].event = "return" /\ watchHistory[i].hr = "S_OK"
            => \E j \in 1 .. i - 1 : watchHistory[j].event = "open"

\* C24: Wait returns success only after the watch file has been opened; when
\* the file is deleted during the wait the watcher creates it again, arms the
\* watch again and keeps waiting, so that an open of the file it created again
\* makes the wait return success.
C24_RecreatedOpenObserved ==
    /\ []ReturnsAfterOpen
    /\ watcher.pendingOpen ~> (WatcherAt("returned") /\ watcher.hr = "S_OK")

\* ------------------------------------------------- descriptor exchange thread
\* AnonymousMemoryMlosContext::Create: the first Connect to the agent's socket
\* (MLOS_IGNORE_HR), the anonymous regions, the thread of HandleFdRequests
CreateAnonymousContext ==
    /\ WatcherAt("idle")
    /\ watcher' = [WatcherIdle EXCEPT !.pc = "started",
                                      !.call = "HandleFdRequests"]
    /\ watchHistory' =
           Append(watchHistory,
                  [event |-> "create",
                   hr |-> IF fileSystem.Socket THEN "S_OK" ELSE "ECONNREFUSED"])
    /\ UNCHANGED <<channelVars, dictionary, contextVars, fileSystem>>

\* HandleFdRequests is entered: CreateSocketWatchFile, inotify_init,
\* fdWatch = INVALID_FD_VALUE, waitForSocket = true
HandleFdRequests ==
    /\ WatcherAt("started")
    /\ fileSystem' = CreateWatchFile(fileSystem)
    /\ watcher' = [watcher EXCEPT !.pc = "create_file"]
    /\ UNCHANGED <<channelVars, dictionary, contextVars, watchHistory>>

\* after the inner loop: waitForSocket = true; hr = Connect(m_socketFilePath);
\* if (FAILED(hr)) continue, which tests while (SUCCEEDED(hr))
FdConnect ==
    /\ WatcherAt("leave")
    /\ watcher.call = "HandleFdRequests"
    /\ LET hr == IF fileSystem.Socket THEN "S_OK" ELSE "ECONNREFUSED" IN
       /\ watcher' = [watcher EXCEPT
                         !.waitForSocket = TRUE,
                         !.hr = hr,
                         !.pc = IF hr = "S_OK" THEN "send" ELSE "exit"]
       /\ watchHistory' = Append(watchHistory, [event |-> "connect", hr |-> hr])
    /\ UNCHANGED <<channelVars, dictionary, contextVars, fileSystem>>

\* the four SendFileDescriptor calls, then while (SUCCEEDED(hr)) and
\* while (waitForSocket) again
FdSend ==
    /\ WatcherAt("send")
    /\ watcher' = [watcher EXCEPT
                      !.pc = IF watcher.fdWatch = 0 THEN "create_file" ELSE "read"]
    /\ watchHistory' = Append(watchHistory, [event |-> "send", hr |-> "S_OK"])
    /\ UNCHANGED <<channelVars, dictionary, contextVars, fileSystem>>

\* after the request loop: inotify_rm_watch, close(fdNotify), return hr
FdReturn ==
    /\ WatcherAt("exit")
    /\ fileSystem' = [RemoveWatch(fileSystem) EXCEPT !.Queue = <<>>]
    /\ watcher' = [watcher EXCEPT !.pc = "thread_return"]
    /\ UNCHANGED <<channelVars, dictionary, contextVars, watchHistory>>

\* HandleFdRequestsThreadProc: MLOS_RETAIL_ASSERT(SUCCEEDED(hr)), which is
\* MlosPlatform::TerminateProcess when hr is a failure
ThreadProcAssert ==
    /\ WatcherAt("thread_return")
    /\ watcher' = [watcher EXCEPT
                      !.pc = IF watcher.hr = "S_OK" THEN "returned"
                             ELSE "terminated"]
    /\ UNCHANGED <<channelVars, dictionary, contextVars, fileSystem, watchHistory>>

\* SpecFdRequests: the thread of HandleFdRequests; the agent opens and removes
\* the watch file and listens, or does not listen, on its socket
NextFdRequests ==
    \/ CreateAnonymousContext
    \/ HandleFdRequests
    \/ WatchCreateFile
    \/ WatchAdd
    \/ WatchRead
    \/ WatchEventsScanned
    \/ FdConnect
    \/ FdSend
    \/ FdReturn
    \/ ThreadProcAssert
    \/ OpenWatchFile
    \/ RemoveWatchFile
    \/ \E listening \in BOOLEAN : AgentListens(listening)

SpecFdRequests == Init /\ [][NextFdRequests]_vars

\* the positions of the thread inside the request loop
RequestLoopPcs == {"create_file", "add_watch", "read", "events", "leave", "send"}

\* C23: a failed Connect in the thread of HandleFdRequests is not fatal: the
\* process keeps running and the thread stays in its request loop, where the
\* next event of the watch leads to another Connect.
C23_FailedConnectNotFatal ==
    watcher.call = "HandleFdRequests" /\ watcher.hr = "ECONNREFUSED"
        => watcher.pc \in RequestLoopPcs

\* the RegisterSettingsAssembly calls that have returned
Registrations == EventsOf("register")

\* the frame of message msgId has been written to the control channel
SentOnChannel(msgId) ==
    \E k \in DOMAIN reservations :
        reservations[k].msgId = msgId /\ reservations[k].written

ReservedAt(position) ==
    SelectSeq(reservations, LAMBDA res : res.position = position)

\* bytes between two word positions
BytesBetween(from, to) == PosDiff(to, from) * WordSize

\* the extension of a frame of frameLength bytes reserved at writePosition:
\* when the frame would end at or after Margin it is extended to the end
\* of the buffer
MarginExtension(writePosition, frameLength) ==
    LET end == (OffsetOf(writePosition) * WordSize + frameLength) % Size
    IN  IF end >= Margin THEN Size - end ELSE 0

\* a writer that is inside AdvanceFreePosition
AdvancePcs == {"free_load_free", "free_load_read", "free_load_length", "free_cas"}

\* the send of writer w found no room for its frame between the positions it
\* loaded
LacksSpace(w) ==
    BytesBetween(writer[w].freePosition, writer[w].writePosition)
        + writer[w].frameLength >= Margin

\* the step moves ReadPosition: a reader claims the frame reserved there and
\* moves over exactly that frame
ReadMoves ==
    /\ UNCHANGED <<Sync.FreePosition, Sync.WritePosition>>
    /\ ReservedAt(Sync.ReadPosition) # <<>>
    /\ BytesBetween(Sync.ReadPosition, Sync.ReadPosition')
           = ReservedAt(Sync.ReadPosition)[1].frameLength
    /\ \E r \in Readers :
          /\ reader[r].pc = "wait_cas"
          /\ claims' = Append(claims,
                [position |-> Sync.ReadPosition, reader |-> r,
                 frameLength |-> ReservedAt(Sync.ReadPosition)[1].frameLength])

\* the step moves WritePosition: a writer reserves its frame, extended into
\* the margin where needed
WriteMoves ==
    /\ UNCHANGED <<Sync.FreePosition, Sync.ReadPosition>>
    /\ \E w \in Writers :
          /\ writer[w].pc = "acquire_cas"
          /\ BytesBetween(Sync.WritePosition, Sync.WritePosition')
                 = writer[w].expectedFrameLength
                     + MarginExtension(Sync.WritePosition,
                                       writer[w].expectedFrameLength)

\* the step moves FreePosition: a writer whose send lacked space is at the
\* compare-exchange of AdvanceFreePosition
FreeMoves ==
    /\ UNCHANGED <<Sync.ReadPosition, Sync.WritePosition>>
    /\ \E w \in Writers :
          /\ writer[w].pc = "free_cas"
          /\ LacksSpace(w)

\* C26: each operation moves only its own position.  A step that changes
\* ReadPosition is a reader claiming the frame reserved there: it adds that
\* frame's length and leaves FreePosition and WritePosition alone.  A step that
\* changes WritePosition is the reservation of a send: it adds the frame length
\* of the message plus the margin extension and leaves ReadPosition alone.  A
\* step that changes FreePosition is inside AdvanceFreePosition, and every
\* writer that is inside AdvanceFreePosition found no space for its frame.
C26_OwnPosition ==
    [][/\ Sync.ReadPosition' # Sync.ReadPosition => ReadMoves
       /\ Sync.WritePosition' # Sync.WritePosition => WriteMoves
       /\ Sync.FreePosition' # Sync.FreePosition => FreeMoves
       /\ \A w \in Writers : writer'[w].pc \in AdvancePcs => LacksSpace(w)']_vars

\* ------------------------------------------------------ size of the channel
\* the size the ISharedChannel constructor gives a channel of the requested
\* capacity
SizeOf(capacity) == 2 ^ most_significant_bit(capacity)

\* size is the largest power of two that is not greater than capacity
LargestPowerOfTwo(size, capacity) ==
    /\ \E k \in 0 .. PositionBits - 1 : size = 2 ^ k
    /\ size <= capacity
    /\ 2 * size > capacity

\* reader r is about to clear the payload of its frame and the memset
\* reaches bytes at or beyond Size (or has a negative length)
ClearsOutside(r) ==
    /\ reader[r].pc = "dispatch_clear"
    /\ IF reader[r].codegenTypeIndex = 0
       THEN ~ ClearLinkPayloadInBuffer(reader[r].readOffset, reader[r].frameLength)
       ELSE ~ ClearPayloadInBuffer(reader[r].readOffset, reader[r].frameLength)

\* reader r is about to read a frame header that runs over the end of the
\* buffer
ReadsOutside(r) ==
    /\ reader[r].pc = "dispatch_read"
    /\ reader[r].readOffset + 3 >= NumWords

\* writer w is about to store a frame that runs over the end of the buffer
WritesOutside(w) ==
    /\ writer[w].pc \in {"send_store_incomplete", "send_store_body"}
    /\ writer[w].writeOffset * WordSize + writer[w].expectedFrameLength > Size

\* C27: the size of the channel is the largest power of two not greater than
\* the requested capacity (16 for 21, 2048 for 4095), Margin is Size minus the
\* size of a frame header, and no thread addresses bytes of the buffer at or
\* beyond Size.
C27_SizeAndAddressing ==
    /\ LargestPowerOfTwo(Size, RequestedSize)
    /\ SizeOf(21) = 16
    /\ SizeOf(4095) = 2048
    /\ Margin = Size - FrameHeaderSize
    /\ \A r \in Readers : ~ ClearsOutside(r) /\ ~ ReadsOutside(r)
    /\ \A w \in Writers : ~ WritesOutside(w)

\* ------------------------------------------------- the length word of a frame
\* reservation i has not been passed by FreePosition: its bytes belong to it
Unreclaimed(i) ==
    PosDiff(reservations[i].position, Sync.FreePosition)
        < PosDiff(Sync.WritePosition, Sync.FreePosition)

\* the word that holds the length of the frame of reservation i
LengthWord(i) == OffsetOf(reservations[i].position)

\* the claims of the frame of reservation i
ClaimsOf(i) ==
    SelectSeq(claims, LAMBDA c : c.position = reservations[i].position)

\* every word of the frame of reservation i after its length word is 0
\* (a link frame wraps to the start of the buffer)
FrameCleared(i) ==
    \A k \in 1 .. InWords(reservations[i].frameLength) - 1 :
        Buffer[(LengthWord(i) + k) % NumWords] = 0

\* writer w is the writer of reservation i and is still sending it
WriterOf(i, w) == reservations[i].writer = w /\ writer[w].resIndex = i

\* virgin or reclaim-ready -> mid-write, stored by the writer that reserved
\* the frame
BecomesMidWrite(i) ==
    /\ Buffer[LengthWord(i)] <= 0
    /\ Buffer'[LengthWord(i)] = SetLowBit(reservations[i].frameLength)
    /\ ~ reservations[i].link
    /\ \E w \in Writers : WriterOf(i, w) /\ writer[w].pc = "send_store_incomplete"

\* mid-write -> complete, stored by the same writer; a link frame has no
\* payload to write and is stored complete at once
BecomesComplete(i) ==
    /\ Buffer'[LengthWord(i)] = reservations[i].frameLength
    /\ \E w \in Writers :
          /\ WriterOf(i, w)
          /\ IF reservations[i].link
             THEN writer[w].pc = "link_signal_ready" /\ Buffer[LengthWord(i)] <= 0
             ELSE /\ writer[w].pc = "send_signal_ready"
                  /\ Buffer[LengthWord(i)] = SetLowBit(reservations[i].frameLength)

\* complete -> reclaim-ready, stored by the one reader that claimed the frame,
\* after the handler of a message frame has run and the payload is cleared
BecomesReclaimReady(i) ==
    /\ Buffer[LengthWord(i)] = reservations[i].frameLength
    /\ Buffer'[LengthWord(i)] = - reservations[i].frameLength
    /\ Len(ClaimsOf(i)) = 1
    /\ reader[ClaimsOf(i)[1].reader].pc = "dispatch_signal_cleanup"
    /\ reader[ClaimsOf(i)[1].reader].readPosition = reservations[i].position
    /\ ~ reservations[i].link =>
          \E k \in DOMAIN dispatches :
              dispatches[k].position = reservations[i].position
    /\ FrameCleared(i)

\* the step runs a handler: the last entry of dispatches is new
Dispatching == Len(dispatches') = Len(dispatches) + 1

\* C28: while FreePosition has not passed a frame, its length word changes only
\* to len|1 (written by the writer that reserved the frame, over a word that is
\* 0 or negative), then to len (written by the same writer; a link frame is
\* published with len at once), then to -len (written by the single reader
\* that claimed the frame, after the handler ran and the payload was
\* cleared); and the length word of a frame whose handler runs has its low
\* bit clear.
C28_LengthWordOrder ==
    [][/\ \A i \in DOMAIN reservations :
             Unreclaimed(i) /\ Buffer'[LengthWord(i)] # Buffer[LengthWord(i)] =>
                 BecomesMidWrite(i) \/ BecomesComplete(i) \/ BecomesReclaimReady(i)
       /\ Dispatching =>
             LowBit(Buffer[OffsetOf(dispatches'[Len(dispatches')].position)]) = 0]_vars

\* ------------------------------------------------------- reclaimed frames
\* FreePosition has advanced past the frame of reservation i
Passed(i) ==
    PosDiff(Sync.FreePosition,
            PosAdd(reservations[i].position, InWords(reservations[i].frameLength)))
        < PosMod \div 2

\* a later reservation reaches the bytes of reservation i one lap on
ReservedAgain(i) ==
    PosDiff(Sync.WritePosition, PosAdd(reservations[i].position, NumWords))
        \in 1 .. PosMod \div 2

\* the frames FreePosition has passed and no later send has reserved again
Reclaimed == {i \in DOMAIN reservations : Passed(i) /\ ~ ReservedAgain(i)}

\* C29 as stated: once FreePosition has advanced past a frame, the length
\* word of the frame is 0.
C29_ReclaimedIsVirgin ==
    \A i \in Reclaimed : Buffer[LengthWord(i)] = 0

\* C29, amended: AdvanceFreePosition stores nothing in the buffer.  Once
\* FreePosition has advanced past a frame, the length word of the frame still
\* holds -len, as the reader left it, and every other word of the frame is 0
\* (cleared by the reader before it stored -len); the length word changes
\* next when a later send reserves the bytes again.
C29_ReclaimedKeepsLength ==
    /\ [](\A i \in Reclaimed :
             /\ Buffer[LengthWord(i)] = - reservations[i].frameLength
             /\ FrameCleared(i))
    /\ [][Sync.FreePosition' # Sync.FreePosition => Buffer' = Buffer]_vars

\* FreePosition has passed two frames, the second of them extended into the
\* margin, and both still hold their negative length
C29_Witness ==
    /\ Cardinality(Reclaimed) >= 2
    /\ \E i \in Reclaimed :
          /\ reservations[i].frameLength > reservations[i].expected
          /\ Buffer[LengthWord(i)] = - reservations[i].frameLength

\* ---------------------------------------------------- AdvanceFreePosition
\* the reservations that start at FreePosition
AtFreePosition ==
    SelectSeq(reservations, LAMBDA res : res.position = Sync.FreePosition)

\* a reader has claimed the frame at position and has not yet marked it
StillDispatched(position) ==
    \E r \in Readers :
        /\ reader[r].readPosition = position
        /\ reader[r].pc \in {"wait_completion", "wait_reset_count", "dispatch_read",
                             "dispatch_clear", "dispatch_signal_cleanup"}

\* the step moves FreePosition over the one frame that starts there; that
\* frame is marked reclaim-ready and no reader is still at work on it
FreeMovesOverReclaimReady ==
    /\ Buffer[OffsetOf(Sync.FreePosition)] < 0
    /\ BytesBetween(Sync.FreePosition, Sync.FreePosition')
           = - Buffer[OffsetOf(Sync.FreePosition)]
    /\ AtFreePosition # <<>>
    /\ AtFreePosition[Len(AtFreePosition)].frameLength
           = - Buffer[OffsetOf(Sync.FreePosition)]
    /\ ~ StillDispatched(Sync.FreePosition)

\* FreePosition is not ahead of ReadPosition (unsigned positions)
FreeNotPastRead == PosDiff(Sync.ReadPosition, Sync.FreePosition) <= PosMod \div 2

\* C30: every step that changes FreePosition moves it forward over exactly one
\* frame whose length word is negative (never over a frame that is mid-write,
\* complete or still being dispatched) and ends at or before ReadPosition;
\* in every state FreePosition is not ahead of ReadPosition.
C30_FreeOnlyOverReclaimReady ==
    /\ []FreeNotPastRead
    /\ [][Sync.FreePosition' # Sync.FreePosition =>
             /\ FreeMovesOverReclaimReady
             /\ BytesBetween(Sync.FreePosition, Sync.FreePosition') <= Size
             /\ PosDiff(Sync.FreePosition', Sync.FreePosition)
                    <= PosDiff(Sync.ReadPosition, Sync.FreePosition)]_vars

\* ------------------------------------------------- where reserved frames lie
\* byte offset of the frame of reservation i
FrameOffset(i) == OffsetOf(reservations[i].position) * WordSize

\* C31: after every successful reservation WritePosition % Size is smaller
\* than Margin (positions are counted in words, so it is a multiple of 4), every
\* reserved length is a multiple of 4, the header of every reserved frame lies
\* before the end of the buffer, and every frame that carries a message (the
\* frames with a non-zero type index) lies contiguously inside the buffer: a
\* reserved region runs over the end only when it is published as a link
\* frame, and a published frame that FreePosition has not passed and whose type
\* index is not 0 ends at or before Size.
C31_HeaderInsideBuffer ==
    /\ OffsetOf(Sync.WritePosition) * WordSize < Margin
    /\ \A i \in DOMAIN reservations :
          /\ reservations[i].frameLength % WordSize = 0
          /\ FrameOffset(i) + FrameHeaderSize <= Size
          /\ reservations[i].link <=> FrameOffset(i) + reservations[i].frameLength > Size
          /\ reservations[i].written /\ Unreclaimed(i)
                 /\ Buffer[LengthWord(i) + 1] # 0 =>
                     FrameOffset(i) + reservations[i].frameLength <= Size

\* ------------------------------------------- a send on a terminated channel
\* SpecControl with the writer threads scheduled fairly
FairSpecControl ==
    SpecControl /\ WF_vars(WriterStep(1)) /\ WF_vars(WriterStep(2))

\* writer w found no space for its frame: it is at the TerminateChannel test
\* or inside AdvanceFreePosition
FoundNoSpace(w) == writer[w].pc \in AdvancePcs \cup {"acquire_check_terminate"}

\* writer w is not inside SendMessage
SendOver(w) == writer[w].pc \in {"idle", "terminate_notify", "terminate_wait", "terminated"}

\* the messages for which no message frame was reserved
Dropped ==
    {msgId \in 1 .. sendCount : MessageReservations(reservations, msgId) = {}}

\* C32: once TerminateChannel is set, a writer that found no space does not
\* stay in SendMessage for ever; the step at which the space check finds
\* TerminateChannel set returns from the send and leaves WritePosition,
\* ReadPosition, FreePosition and the buffer as they are.
C32_NoSpaceSendReturns ==
    /\ \A w \in Writers :
          (Sync.TerminateChannel /\ FoundNoSpace(w)) ~> SendOver(w)
    /\ [][\A w \in Writers :
             /\ writer[w].pc = "acquire_check_terminate"
             /\ writer'[w].pc # "acquire_check_terminate"
             /\ Sync.TerminateChannel
             => /\ writer'[w] = SendReturn(writer[w])
                /\ UNCHANGED <<Sync.WritePosition, Sync.ReadPosition,
                               Sync.FreePosition, Buffer>>]_vars

\* the channel is terminated, the terminate message was written, and a send
\* of writer 1 has returned without a frame
C32_Witness ==
    /\ Sync.TerminateChannel
    /\ writer[1].pc = "idle"
    /\ \E i \in DOMAIN reservations : reservations[i].writer = 2
    /\ \A i \in DOMAIN reservations : reservations[i].written
    /\ Dropped # {}

\* ------------------------------------------- the channel after a restart
\* the step at which InitializeChannel returns
InitializeChannelReturns == main.pc = "init_walk" /\ main'.pc = "running"

\* the frame of reservation i was mid-write or already marked processed when
\* the processes died
UnfinishedAtCrash(i) ==
    \/ ~ AtCrash.reservations[i].written
    \/ AtCrash.Buffer[LengthWord(i)] < 0
    \/ LowBit(AtCrash.Buffer[LengthWord(i)]) = 1

\* reservation i is the frame at FreePosition
FirstUnreclaimed(i) == reservations[i].position = Sync.FreePosition /\ Unreclaimed(i)

RECURSIVE ForwardChain(_, _, _)
ForwardChain(entries, offset, fuel) ==
    IF offset = 0 \/ fuel = 0 THEN <<>>
    ELSE <<offset>> \o ForwardChain(entries, entries[offset].NextEntryOffset, fuel - 1)

\* the entries reached from offset through PrevEntryoffset
RECURSIVE BackwardChain(_, _, _)
BackwardChain(entries, offset, fuel) ==
    IF offset = 0 \/ fuel = 0 THEN <<>>
    ELSE <<offset>> \o BackwardChain(entries, entries[offset].PrevEntryoffset, fuel - 1)

Reversed(seq) == [i \in 1 .. Len(seq) |-> seq[Len(seq) + 1 - i]]

ChainFuel == Cardinality(EntryOffsets) + 1

\* the chain of AllocationEntry records from the first allocation
EntryChain(region) ==
    IF region.Allocator.AllocationCount = 0 THEN <<>>
    ELSE ForwardChain(region.Entries, region.Allocator.FirstAllocationOffset,
                      ChainFuel)

AllocateSucceeds ==
    componentConfig'.op = "allocate" /\ componentConfig'.result = "S_OK"

WordsOf(i) ==
    {OffsetOf(PosAdd(reservations[i].position, k)) :
        k \in 0 .. InWords(reservations[i].frameLength) - 1}

\* C35: for every frame length SendMessage accepts (frameLength < Size, the
\* lengths between Margin and Size included), after every successful
\* reservation WritePosition - FreePosition <= Size, and no reserved region
\* overlaps a frame FreePosition has not passed yet.
C35_ReservationFits ==
    /\ BytesBetween(Sync.FreePosition, Sync.WritePosition) <= Size
    /\ \A i, j \in DOMAIN reservations :
          i < j /\ Unreclaimed(i) /\ Unreclaimed(j) =>
              WordsOf(i) \cap WordsOf(j) = {}

\* ------------------------------------------------------------------ C36 --

\* the constructor that runs InitializeChannel keeps running
FairSpecRestart == SpecRestart /\ WF_vars(InitializeChannel)

\* InitializeChannel has been entered and has not returned
InsideInitializeChannel == crashed # <<>> /\ main.pc # "running"

\* C36: InitializeChannel terminates from every state a crash can leave
\* behind, a writer that died between its WritePosition compare-exchange and
\* its first store to Length included (the length word of the reserved frame
\* is 0 or a stale value of the previous lap).
C36_InitializeChannelTerminates ==
    InsideInitializeChannel ~> Restarted

\* ------------------------------------------------------------------ C37 --

\* the statements of WaitForFrame
WaitForFramePcs ==
    {"wait_load_read", "wait_load_length", "wait_cas", "wait_completion",
     "wait_check_terminate", "wait_opt_in", "wait_for_frame", "wait_opt_out",
     "wait_reset_count"}

\* reader r is inside WaitForFrame, after its fetch_add and before its fetch_sub
OptedIn(r) == reader[r].pc \in WaitForFramePcs /\ reader[r].shouldWait

\* C37: ReaderInWaitingStateCount equals the number of readers between their
\* opt-in increment and their opt-out decrement inside WaitForFrame; it is 0
\* whenever no reader is inside WaitForFrame, also after readers have left
\* through the terminate path.
C37_WaitingStateCount ==
    Sync.ReaderInWaitingStateCount = Cardinality({r \in Readers : OptedIn(r)})

\* ------------------------------------------------------------------ C38 --

\* The channel during its second pass over the buffer: two messages of 4
\* payload bytes (frames of 20 bytes at offsets 0 and 20) and one of 16 (a
\* link frame of 32 bytes at offset 40, then the message at offset 8) have been
\* sent and dispatched.  The link frame is reclaimed and has left its negated
\* length at offset 40; the message is processed and not yet reclaimed; the
\* reader is back at the top of WaitForFrame.
SecondLapWrite == 2 * NumWords - InWords(Size - 40)

SecondLapFree == NumWords + InWords(8)

InitSecondLap ==
    /\ Sync = [InitSync EXCEPT !.WritePosition = SecondLapWrite,
                               !.ReadPosition = SecondLapWrite,
                               !.FreePosition = SecondLapFree,
                               !.ActiveReaderCount = 1]
    /\ Buffer = [i \in 0 .. NumWords - 1 |->
                    IF i \in {InWords(8), InWords(40)} THEN StaleLength ELSE 0]
    /\ semaphore = 0
    /\ policy = "interprocess"
    /\ writer = [w \in Writers |-> WriterIdle]
    /\ reader = [r \in Readers |-> IF r = 1 THEN ReaderWaiting ELSE ReaderIdle]
    /\ main = MainIdle
    /\ fault = FALSE
    /\ sendCount = 0
    /\ reservations = <<>>
    /\ claims = <<>>
    /\ dispatches = <<>>
    /\ crashed = <<>>
    /\ InitDictionary
    /\ InitPlatform

\* SpecSecondLap: the processes die at any point of the second pass and the
\* channel is constructed again over the same shared memory
SpecSecondLap == InitSecondLap /\ [][NextRestart]_vars

\* the walk of InitializeChannel is about to clear the payload of the frame at
\* its position and the memset of ClearPayload reaches bytes at or beyond Size
WalkClearsOutside ==
    /\ main.pc = "init_walk"
    /\ main.freePosition # main.writePosition
    /\ LET freeOffset == OffsetOf(main.freePosition)
           length == Buffer[freeOffset]
       IN  /\ NeedsRecovery(length)
           /\ ~ ClearPayloadInBuffer(freeOffset, RecoveredLength(length))

\* C38: no channel operation writes outside the buffer offsets [0, Size): the
\* payload clears of the reader's cleanup and of InitializeChannel touch only
\* bytes inside the buffer, also for a link frame whose reserved range extends
\* past the physical end of the buffer.
C38_ClearsInsideBuffer ==
    /\ ~ WalkClearsOutside
    /\ \A r \in Readers : ~ ClearsOutside(r)

\* ------------------------------------------------------------------ C39 --

\* A shared config region whose size the caller of Create chose large enough
\* for more configs than the dictionary has slots.
LargeRegionSize == MemoryRegionSize + 2 * AllocationAlignment

\* one more key than the dictionary has slots, all of the smallest config type
ManyKeys == 1 .. ElementCount + 1

SmallType == CHOOSE type \in Types : \A other \in Types : type <= other

DefaultValue == CHOOSE value \in ConfigValues : \A other \in ConfigValues : value <= other

InitLargeRegion ==
    /\ InitChannelWith("interprocess")
    /\ InitPlatform
    /\ memoryRegion =
          AllocateInMemoryRegion(EmptyRegion(LargeRegionSize, FirstAllocationAlignment),
                                 ConfigsArraySize)
    /\ componentConfig = ComponentIdle
    /\ otherConfig = ComponentIdle
    /\ configHistory = <<>>

NextLargeRegion ==
    \/ \E key \in ManyKeys :
           \/ CreateOrUpdateFrom("dictionary", SmallType, key, DefaultValue)
           \/ Lookup("dictionary", SmallType, key, DefaultValue)
    \/ ProbeSlot
    \/ AllocateSharedConfig
    \/ InitConfigId
    \/ InitTypeIndex
    \/ SerializeKey
    \/ SerializeValue
    \/ BindSharedConfig
    \/ StoreSlot

SpecLargeRegion == InitLargeRegion /\ [][NextLargeRegion]_vars

\* the thread inside the call keeps running
FairSpecLargeRegion == SpecLargeRegion /\ WF_vars(ProbeSlot)

\* every slot of the dictionary holds a config
AllSlotsOccupied == \A i \in DOMAIN memoryRegion.Slots : memoryRegion.Slots[i] # 0

\* C39: CreateOrUpdateFrom and Lookup terminate in every reachable state of
\* the dictionary: the linear probe always reaches an empty slot or the config
\* with the matching key, because the slots are never all occupied by configs
\* with other keys.
C39_ProbeTerminates ==
    /\ [] ~ AllSlotsOccupied
    /\ ComponentAt("probe") ~> ~ ComponentAt("probe")

\* ------------------------------------------------------------------ C40 --
\* Two threads of the target call RegisterComponentConfig on the same
\* dictionary.  componentConfig is the ComponentConfig of the thread that runs,
\* otherConfig that of the thread that does not.

\* the scheduler lets the other thread run
ContextSwitch ==
    /\ componentConfig # otherConfig
    /\ componentConfig' = otherConfig
    /\ otherConfig' = componentConfig
    /\ UNCHANGED <<memoryRegion, configHistory, channelVars, platformVars>>

\* the statements of AllocateInMemoryRegion after offset = allocator.FreeOffset,
\* run by a thread that loaded `offset` earlier
AllocateAfterLoad(region, size, offset) ==
    LET allocator == region.Allocator
        linked == IF allocator.LastAllocatedOffset # 0
                  THEN [region.Entries EXCEPT
                           ![allocator.LastAllocatedOffset].NextEntryOffset = offset]
                  ELSE region.Entries
    IN  [region EXCEPT
            !.Allocator =
                [allocator EXCEPT
                    !.FreeOffset =
                        @ + align(AllocationAlignment, size + AllocationEntrySize),
                    !.AllocationCount = @ + 1,
                    !.LastAllocatedOffset = offset],
            !.Entries =
                [linked EXCEPT ![offset].PrevEntryoffset =
                    allocator.LastAllocatedOffset]]

\* both threads are in AllocateInMemoryRegion: the running thread has passed
\* the out-of-memory test and executed offset = allocator.FreeOffset, the
\* other thread then runs its whole call, and the running thread goes on
AllocateInterleaved ==
    /\ ComponentAt("allocate")
    /\ otherConfig.pc = "allocate"
    /\ LET size == SharedConfigSize(componentConfig.type)
           otherSize == SharedConfigSize(otherConfig.type)
           offset == memoryRegion.Allocator.FreeOffset
       IN  /\ ~ AllocationFails(memoryRegion.Allocator, size)
           /\ ~ AllocationFails(memoryRegion.Allocator, otherSize)
           /\ memoryRegion' =
                  AllocateAfterLoad(AllocateInMemoryRegion(memoryRegion, otherSize),
                                    size, offset)
           /\ componentConfig' =
                  [componentConfig EXCEPT
                      !.pc = CreateOrder(componentConfig.api)[1],
                      !.size = size,
                      !.allocatedOffset = offset + AllocationEntrySize]
           /\ otherConfig' =
                  [otherConfig EXCEPT
                      !.pc = CreateOrder(otherConfig.api)[1],
                      !.size = otherSize,
                      !.allocatedOffset = offset + AllocationEntrySize]
    /\ UNCHANGED <<configHistory, channelVars, platformVars>>

\* each thread calls CreateOrUpdateFrom once
NextConcurrent ==
    \/ \E type \in Types, key \in Keys :
           /\ componentConfig.op = "none"
           /\ CreateOrUpdateFrom("dictionary", type, key, DefaultValue)
    \/ ContextSwitch
    \/ ProbeSlot
    \/ AllocateSharedConfig
    \/ AllocateInterleaved
    \/ InitConfigId
    \/ InitTypeIndex
    \/ SerializeKey
    \/ SerializeValue
    \/ BindSharedConfig
    \/ StoreSlot

SpecConcurrent == Init /\ [][NextConcurrent]_vars

\* the call of a thread has returned S_OK
Created(config) ==
    config.pc = "idle" /\ config.op = "create" /\ config.result = "S_OK"

\* the bytes of the allocation made by a call: the AllocationEntry and the
\* shared config behind it
RangeOf(config) ==
    config.allocatedOffset - AllocationEntrySize
        .. config.allocatedOffset + config.size - 1

\* the config that Lookup of the thread's type and key finds
FoundByLookup(config) ==
    \E i \in SlotsOf(memoryRegion, config.type, config.key) :
        memoryRegion.Slots[i] = config.allocatedOffset

\* C40: two CreateOrUpdateFrom calls with different keys that run
\* concurrently on the same dictionary both succeed: afterwards each key is
\* found by Lookup, the two configs occupy disjoint ranges of the arena and
\* different slots, and AllocationCount has grown by two.
C40_ConcurrentCreates ==
    /\ Created(componentConfig)
    /\ Created(otherConfig)
    /\ componentConfig.key # otherConfig.key
    => /\ FoundByLookup(componentConfig)
       /\ FoundByLookup(otherConfig)
       /\ RangeOf(componentConfig) \cap RangeOf(otherConfig) = {}
       /\ componentConfig.slotIndex # otherConfig.slotIndex
       /\ memoryRegion.Allocator.AllocationCount
              = InitializeSharedConfigDictionary.Allocator.AllocationCount + 2

====
